---- MODULE Spec2Model ----
(***************************************************************************)
(* Model of the pluralistic-alignment demo: the consistency cache          *)
(* (src/src/cache.py), the lookup-or-generate request flow (src/src/app.py)*)
(* and the rule-based controversy classifier (src/src/controversy.py).     *)
(*                                                                         *)
(* Strings are TLA+ strings; Char(s, i) is the i-th character.  Three      *)
(* non-ASCII characters that Python's str.lower() treats specially are     *)
(* written with ASCII stand-ins (CapSigma, SmallSigma, FinalSigma) so that *)
(* the module stays pure ASCII.                                            *)
(***************************************************************************)
EXTENDS Integers, Sequences, FiniteSets, TLC

VARIABLES
    \* --- key specifications (SpecNorm, SpecKey): inputs and results of
    \*     _generate_cache_key
    triple1, triple2, key1, key2,
    \* --- the classifier specifications (SpecDetect, SpecShared): the query
    \*     put to detect_controversy, what it returned, and the profile
    \*     objects the module-level TOPIC_PATTERNS holds
    dquery, dresult, topic_profiles,
    \* --- the specifications of the other functions (SpecSurface, SpecLlm,
    \*     SpecSelect, SpecCompletion): the call under way, with its
    \*     arguments, and what it returned
    fcall, fresult,
    \* --- the cache (Spec, SpecApp)
    table,      \* the rows of perspective_cache
    stores,     \* how many stores were called so far
    clock,      \* datetime.utcnow(), in ticks
    \* --- the callers: one operation at a time each
    pc,         \* where each caller is in its operation
    op,         \* the operation each caller runs
    arg,        \* its arguments
    now,        \* the time it read
    row,        \* the row its SELECT fetched
    ret,        \* what its operation returned
    \* --- history
    lastStore,  \* per cache key, the last store executed, while unexpired
    expect,     \* per caller, lastStore of its key when its SELECT ran
    replaced,   \* per caller, the rows its store found under its key
    \* --- the request handlers of app.py (SpecApp)
    app         \* per caller, the perspective request it is serving

keysVars == <<triple1, triple2, key1, key2>>
detectVars == <<dquery, dresult, topic_profiles>>
funVars == <<fcall, fresult>>
pureVars == <<keysVars, detectVars, funVars>>
cacheVars == <<table, stores, clock>>
procVars == <<pc, op, arg, now, row, ret>>
histVars == <<lastStore, expect, replaced>>
appVars == <<app>>

systemVars == <<cacheVars, procVars, histVars, appVars>>

vars == <<pureVars, cacheVars, procVars, histVars, appVars>>

-----------------------------------------------------------------------------
(* Bounds *)

\* longest query drawn in SpecNorm
MaxQLen == 3
\* longest query drawn in SpecKey
MaxKeyQLen == 2
\* the clock stops here
MaxClock == 2
\* cache hits ever counted
MaxHits == 1
\* stores ever called
MaxStores == 2
\* most words of a query drawn in SpecDetect
MaxWords == 2
\* most communities a caller appends to a returned profile
MaxAppends == 1

-----------------------------------------------------------------------------
(* Strings as Python sees them *)

Char(s, i) == SubSeq(s, i, i)

UpperLetters == "ABCDEFGHIJKLMNOPQRSTUVWXYZ"
LowerLetters == "abcdefghijklmnopqrstuvwxyz"

\* stand-in for U+03A3 GREEK CAPITAL LETTER SIGMA
CapSigma == "$"
\* stand-in for U+03C3 GREEK SMALL LETTER SIGMA
SmallSigma == "%"
\* stand-in for U+03C2 GREEK SMALL LETTER FINAL SIGMA
FinalSigma == "&"
\* the small letter e with an acute accent, written in ASCII likewise
EAcute == "~"

\* characters str.split() / str.strip() treat as whitespace
Whitespace == {" ", "\t", "\n", "\r", "\f"}

\* characters with the Unicode property Cased, among those the model uses
IsCased(ch) ==
    \/ \E i \in 1..26 : Char(UpperLetters, i) = ch \/ Char(LowerLetters, i) = ch
    \/ ch \in {CapSigma, SmallSigma, FinalSigma}

\* characters with the Unicode property Case_Ignorable, among the ASCII ones
IsCaseIgnorable(ch) == ch \in {"'", ".", ":", "^"}

\* the simple lower-case mapping of one character
LowerChar(ch) ==
    IF \E i \in 1..26 : Char(UpperLetters, i) = ch
    THEN Char(LowerLetters, CHOOSE i \in 1..26 : Char(UpperLetters, i) = ch)
    ELSE ch

\* first position at or before i (going left) holding a character that is
\* not case-ignorable, 0 when there is none
RECURSIVE SkipIgnorableLeft(_, _)
SkipIgnorableLeft(s, i) ==
    IF i < 1 THEN 0
    ELSE IF IsCaseIgnorable(Char(s, i)) THEN SkipIgnorableLeft(s, i - 1)
    ELSE i

\* first position at or after i (going right) holding a character that is
\* not case-ignorable, Len(s) + 1 when there is none
RECURSIVE SkipIgnorableRight(_, _)
SkipIgnorableRight(s, i) ==
    IF i > Len(s) THEN Len(s) + 1
    ELSE IF IsCaseIgnorable(Char(s, i)) THEN SkipIgnorableRight(s, i + 1)
    ELSE i

\* str.lower() maps a capital sigma to the final form when it ends a word:
\* preceded by a cased letter and not followed by one
IsFinalSigmaAt(s, i) ==
    LET j == SkipIgnorableLeft(s, i - 1)
        k == SkipIgnorableRight(s, i + 1)
    IN  /\ j >= 1
        /\ IsCased(Char(s, j))
        /\ (k > Len(s) \/ ~IsCased(Char(s, k)))

LowerAt(s, i) ==
    IF Char(s, i) = CapSigma
    THEN (IF IsFinalSigmaAt(s, i) THEN FinalSigma ELSE SmallSigma)
    ELSE LowerChar(Char(s, i))

RECURSIVE LowerFrom(_, _)
LowerFrom(s, i) ==
    IF i > Len(s) THEN "" ELSE LowerAt(s, i) \o LowerFrom(s, i + 1)

\* str.lower()
Lower(s) == LowerFrom(s, 1)

\* str.split(): the maximal runs of non-whitespace characters, in order.
\* cur is the word being read, i the next position.
RECURSIVE SplitFrom(_, _, _)
SplitFrom(s, i, cur) ==
    IF i > Len(s)
    THEN (IF cur = "" THEN <<>> ELSE <<cur>>)
    ELSE IF Char(s, i) \in Whitespace
         THEN (IF cur = "" THEN SplitFrom(s, i + 1, "")
               ELSE <<cur>> \o SplitFrom(s, i + 1, ""))
         ELSE SplitFrom(s, i + 1, cur \o Char(s, i))

Split(s) == SplitFrom(s, 1, "")

\* sep.join(words)
RECURSIVE Join(_, _)
Join(words, sep) ==
    IF words = <<>> THEN ""
    ELSE IF Len(words) = 1 THEN Head(words)
    ELSE Head(words) \o sep \o Join(Tail(words), sep)

\* str.strip()
RECURSIVE StripLeft(_)
StripLeft(s) ==
    IF s # "" /\ Char(s, 1) \in Whitespace THEN StripLeft(SubSeq(s, 2, Len(s))) ELSE s

RECURSIVE StripRight(_)
StripRight(s) ==
    IF s # "" /\ Char(s, Len(s)) \in Whitespace
    THEN StripRight(SubSeq(s, 1, Len(s) - 1)) ELSE s

Strip(s) == StripRight(StripLeft(s))

-----------------------------------------------------------------------------
(* cache.py: the fingerprint *)

_normalize_query(query) == Join(Split(Strip(Lower(query))), " ")

\* hashlib.sha256(...).hexdigest()[:32], taken as injective on its input:
\* the digest of a string is represented by the string itself
Sha256Hex32(s) == s

_generate_cache_key(community, topic_category, query) ==
    Sha256Hex32(community \o "|" \o topic_category \o "|" \o _normalize_query(query))

-----------------------------------------------------------------------------
(* Inputs *)

\* all strings over the characters cs of length at most n
RECURSIVE StringsUpTo(_, _)
StringsUpTo(cs, n) ==
    IF n = 0 THEN {""}
    ELSE LET shorter == StringsUpTo(cs, n - 1)
         IN  shorter \cup {s \o c : s \in shorter, c \in cs}

NoKey == "<none>"

Triple(c, t, q) == [community |-> c, topic_category |-> t, query |-> q]

KeyOf(t) == _generate_cache_key(t.community, t.topic_category, t.query)

-----------------------------------------------------------------------------
(* Time: datetime values and their ISO text *)

\* The clock counts ticks.  Tick t is the datetime 2024-01-01T00:00:00 plus
\* t \div TicksPerDay days plus t % TicksPerDay microseconds: the model samples
\* each day at midnight and one microsecond later, the two shapes
\* datetime.isoformat() prints.
TicksPerDay == 2

Digits == "0123456789"
DigitOf(n) == Char(Digits, n + 1)
DigitVal(ch) == CHOOSE n \in 0..9 : Char(Digits, n + 1) = ch

TwoDigits(n) == DigitOf(n \div 10) \o DigitOf(n % 10)

RECURSIVE ParseInt(_)
ParseInt(s) ==
    IF s = "" THEN 0
    ELSE 10 * ParseInt(SubSeq(s, 1, Len(s) - 1)) + DigitVal(Char(s, Len(s)))

\* days before the first of each month of 2024
DaysBeforeMonth == <<0, 31, 60, 91, 121>>

MonthOfDay(d) == CHOOSE m \in 1..4 : DaysBeforeMonth[m] <= d /\ d < DaysBeforeMonth[m + 1]

\* datetime.isoformat(): the microseconds are printed only when not zero
IsoFormat(t) ==
    LET d == t \div TicksPerDay
        us == t % TicksPerDay
        m == MonthOfDay(d)
    IN  "2024-" \o TwoDigits(m) \o "-" \o TwoDigits(d - DaysBeforeMonth[m] + 1)
            \o "T00:00:00"
            \o (IF us = 0 THEN "" ELSE ".00000" \o DigitOf(us))

\* datetime.fromisoformat()
FromIsoFormat(s) ==
    LET m == ParseInt(SubSeq(s, 6, 7))
        day == ParseInt(SubSeq(s, 9, 10))
        us == IF Len(s) > 19 THEN ParseInt(SubSeq(s, 21, 26)) ELSE 0
    IN  (DaysBeforeMonth[m] + day - 1) * TicksPerDay + us

\* now + timedelta(days=ttl_days)
PlusDays(t, ttl_days) == t + ttl_days * TicksPerDay

\* the characters of an ISO timestamp in code-point order
IsoCharOrder == "-.0123456789:T"
CodeOf(ch) == CHOOSE i \in 1..Len(IsoCharOrder) : Char(IsoCharOrder, i) = ch

\* SQLite's < on TEXT values (BINARY collation): byte-wise, a proper prefix
\* is smaller
RECURSIVE TextLess(_, _)
TextLess(a, b) ==
    IF b = "" THEN FALSE
    ELSE IF a = "" THEN TRUE
    ELSE IF Char(a, 1) = Char(b, 1) THEN TextLess(Tail(a), Tail(b))
    ELSE CodeOf(Char(a, 1)) < CodeOf(Char(b, 1))

-----------------------------------------------------------------------------
(* cache.py: the table and its three operations *)

Procs == {"p1", "p2"}

\* Python values
None == [kind |-> "None"]
Str(s) == [kind |-> "str", val |-> s]
IntVal(n) == [kind |-> "int", val |-> n]
Bool(b) == [kind |-> "bool", val |-> b]
Float(text) == [kind |-> "float", text |-> text]
List(items) == [kind |-> "list", items |-> items]
Dict(items) == [kind |-> "dict", items |-> items]

\* c.fetchone() found nothing
NoRow == [id |-> 0]
NoArg == [community |-> "", topic_category |-> "", query |-> "",
          perspective_text |-> "", ttl_days |-> 0]
NoStore == [stored |-> FALSE]
\* the caller serves no request of app.py
NoRequest == [pc |-> "idle"]

\* what the history keeps of a store: its text and expiry, when its ttl_days
\* is positive and for as long as the clock has not reached the expiry
Remember(text, ttl_days, expires, t) ==
    IF ttl_days > 0 /\ t < expires
    THEN [stored |-> TRUE, text |-> text, expires |-> expires]
    ELSE NoStore
StillLive(s, t) == IF s.stored /\ t < s.expires THEN s ELSE NoStore

RowsOf(cache_key) == {r \in table : r.cache_key = cache_key}
ArgKey(a) == _generate_cache_key(a.community, a.topic_category, a.query)

\* No caller starts or continues an operation while another is handing its
\* result back: a return touches nothing shared, so it is taken at once.
Idle(p) == pc[p] = "idle" /\ \A q \in Procs : pc[q] # "done"
At(p, label) == pc[p] = label /\ \A q \in Procs : pc[q] # "done"

\* hits already counted or about to be
HitsInFlight ==
    Cardinality({p \in Procs : op[p] = "get" /\ pc[p] \in {"get_check", "get_update"}})
HitsCounted ==
    LET RECURSIVE Sum(_)
        Sum(rs) == IF rs = {} THEN 0
                   ELSE LET r == CHOOSE x \in rs : TRUE
                        IN  r.hit_count + Sum(rs \ {r})
    IN  Sum(table)

\* AUTOINCREMENT never gives an id twice.  The model names a new row by the
\* least id that no row has and no caller has fetched: the only use of an id
\* is the comparison in the UPDATE of line 96, which cannot tell this id
\* from the next unused one.
IdsInUse == {r.id : r \in table} \cup {row[p].id : p \in Procs}
NextId == CHOOSE i \in 1..(Cardinality(IdsInUse) + 1) :
            i \notin IdsInUse /\ \A j \in 1..(i - 1) : j \in IdsInUse

\* get_cached_perspective, lines 77-86: the key and the SELECT
GetSelect(p, community, topic_category, query) ==
    /\ Idle(p)
    /\ HitsCounted + HitsInFlight < MaxHits
    /\ LET a == [NoArg EXCEPT !.community = community,
                              !.topic_category = topic_category,
                              !.query = query]
           found == RowsOf(ArgKey(a))
       IN  /\ arg' = [arg EXCEPT ![p] = a]
           /\ row' = [row EXCEPT ![p] =
                        IF found = {} THEN NoRow
                        ELSE LET r == CHOOSE x \in found : TRUE
                             IN  [id |-> r.id, perspective_text |-> r.perspective_text,
                                  expires_at |-> r.expires_at]]
           /\ expect' = [expect EXCEPT ![p] = lastStore[ArgKey(a)]]
    /\ op' = [op EXCEPT ![p] = "get"]
    /\ pc' = [pc EXCEPT ![p] = "get_check"]
    /\ UNCHANGED <<pureVars, cacheVars, now, ret, lastStore, replaced>>

\* a mutant of the expiry test of line 91 that lets an entry live through
\* the instant it expires
NotExpiredInclusive(expires_at, t) == FromIsoFormat(expires_at) >= t

\* line 91: datetime.fromisoformat(expires_at) > datetime.utcnow()
NotExpired(expires_at, t) == FromIsoFormat(expires_at) > t

\* lines 88-91 and 102-103: the row and the expiry test
GetCheck(p) ==
    /\ At(p, "get_check")
    /\ now' = [now EXCEPT ![p] = clock]
    /\ IF row[p] # NoRow /\ NotExpired(row[p].expires_at, clock)
       THEN /\ pc' = [pc EXCEPT ![p] = "get_update"]
            /\ UNCHANGED ret
       ELSE /\ pc' = [pc EXCEPT ![p] = "done"]
            /\ ret' = [ret EXCEPT ![p] = None]
    /\ UNCHANGED <<pureVars, appVars, cacheVars, op, arg, row, histVars>>

\* lines 93-100: the hit is counted on the row with the fetched id, if it is
\* still there, and the fetched text returned
GetUpdate(p) ==
    /\ At(p, "get_update")
    /\ table' = {IF r.id = row[p].id THEN [r EXCEPT !.hit_count = @ + 1] ELSE r
                    : r \in table}
    /\ pc' = [pc EXCEPT ![p] = "done"]
    /\ ret' = [ret EXCEPT ![p] = Str(row[p].perspective_text)]
    /\ UNCHANGED <<pureVars, appVars, stores, clock, op, arg, now, row, histVars>>

\* store_cached_perspective, lines 123-126: the key and the two times
StoreNow(p, community, topic_category, query, perspective_text, ttl_days) ==
    /\ Idle(p)
    /\ stores < MaxStores
    /\ stores' = stores + 1
    /\ arg' = [arg EXCEPT ![p] =
                [community |-> community, topic_category |-> topic_category,
                 query |-> query, perspective_text |-> perspective_text,
                 ttl_days |-> ttl_days]]
    /\ now' = [now EXCEPT ![p] = clock]
    /\ op' = [op EXCEPT ![p] = "store"]
    /\ pc' = [pc EXCEPT ![p] = "store_exec"]
    /\ UNCHANGED <<pureVars, table, clock, row, ret, histVars>>

\* a mutant of the upsert that resets the hit count of the row it replaces
UpsertResetHits(rows, id, a, t) ==
    LET k == ArgKey(a)
        fresh == [id |-> id, cache_key |-> k, community |-> a.community,
                  topic_category |-> a.topic_category,
                  query_normalized |-> _normalize_query(a.query),
                  perspective_text |-> a.perspective_text,
                  created_at |-> IsoFormat(t),
                  expires_at |-> IsoFormat(PlusDays(t, a.ttl_days)),
                  hit_count |-> 0]
    IN  IF \E r \in rows : r.cache_key = k
        THEN {IF r.cache_key = k
              THEN [r EXCEPT !.perspective_text = fresh.perspective_text,
                             !.created_at = fresh.created_at,
                             !.expires_at = fresh.expires_at,
                             !.hit_count = 0]
              ELSE r : r \in rows}
        ELSE rows \cup {fresh}

\* a mutant of the upsert written as INSERT OR REPLACE: the row in conflict
\* is deleted and a new one inserted
UpsertInsertOrReplace(rows, id, a, t) ==
    {r \in rows : r.cache_key # ArgKey(a)} \cup
        {[id |-> id, cache_key |-> ArgKey(a), community |-> a.community,
          topic_category |-> a.topic_category,
          query_normalized |-> _normalize_query(a.query),
          perspective_text |-> a.perspective_text,
          created_at |-> IsoFormat(t),
          expires_at |-> IsoFormat(PlusDays(t, a.ttl_days)),
          hit_count |-> 0]}

\* a mutant of the upsert without the ON CONFLICT clause and the UNIQUE
\* constraint: every store inserts
UpsertAlwaysInsert(rows, id, a, t) ==
    rows \cup {[id |-> id, cache_key |-> ArgKey(a), community |-> a.community,
                topic_category |-> a.topic_category,
                query_normalized |-> _normalize_query(a.query),
                perspective_text |-> a.perspective_text,
                created_at |-> IsoFormat(t),
                expires_at |-> IsoFormat(PlusDays(t, a.ttl_days)),
                hit_count |-> 0]}

\* lines 132-144: INSERT ... ON CONFLICT(cache_key) DO UPDATE SET
\* perspective_text, created_at, expires_at; one statement, atomic
Upsert(rows, id, a, t) ==
    LET k == ArgKey(a)
        fresh == [id |-> id, cache_key |-> k, community |-> a.community,
                  topic_category |-> a.topic_category,
                  query_normalized |-> _normalize_query(a.query),
                  perspective_text |-> a.perspective_text,
                  created_at |-> IsoFormat(t),
                  expires_at |-> IsoFormat(PlusDays(t, a.ttl_days)),
                  hit_count |-> 0]
    IN  IF \E r \in rows : r.cache_key = k
        THEN {IF r.cache_key = k
              THEN [r EXCEPT !.perspective_text = fresh.perspective_text,
                             !.created_at = fresh.created_at,
                             !.expires_at = fresh.expires_at]
              ELSE r : r \in rows}
        ELSE rows \cup {fresh}

\* lines 128-146: the upsert is executed and committed
StoreExec(p) ==
    /\ At(p, "store_exec")
    /\ table' = Upsert(table, NextId, arg[p], now[p])
    /\ lastStore' = [lastStore EXCEPT ![ArgKey(arg[p])] =
                        Remember(arg[p].perspective_text, arg[p].ttl_days,
                                 PlusDays(now[p], arg[p].ttl_days), clock)]
    /\ replaced' = [replaced EXCEPT ![p] = RowsOf(ArgKey(arg[p]))]
    /\ pc' = [pc EXCEPT ![p] = "done"]
    /\ ret' = [ret EXCEPT ![p] = None]
    /\ UNCHANGED <<pureVars, appVars, stores, clock, op, arg, now, row, expect>>

\* clear_expired_cache, line 156: the time the sweep compares with
SweepNow(p) ==
    /\ Idle(p)
    /\ now' = [now EXCEPT ![p] = clock]
    /\ op' = [op EXCEPT ![p] = "sweep"]
    /\ pc' = [pc EXCEPT ![p] = "sweep_exec"]
    /\ UNCHANGED <<pureVars, appVars, cacheVars, arg, row, ret, histVars>>

\* a mutant of the DELETE without its WHERE clause
ExpiredRowsAll(rows, t) == rows

\* a mutant of the DELETE that also removes the rows expiring right now
ExpiredRowsInclusive(rows, t) ==
    {r \in rows : ~TextLess(IsoFormat(t), r.expires_at)}

\* lines 153-156: the rows DELETE ... WHERE expires_at < ? removes
ExpiredRows(rows, t) == {r \in rows : TextLess(r.expires_at, IsoFormat(t))}

\* lines 153-160: the DELETE is executed and its rowcount returned
SweepExec(p) ==
    /\ At(p, "sweep_exec")
    /\ table' = table \ ExpiredRows(table, now[p])
    /\ pc' = [pc EXCEPT ![p] = "done"]
    /\ ret' = [ret EXCEPT ![p] = IntVal(Cardinality(ExpiredRows(table, now[p])))]
    /\ UNCHANGED <<pureVars, appVars, stores, clock, op, arg, now, row, histVars>>

\* the caller takes the result and is free for its next operation
Return(p) ==
    /\ pc[p] = "done"
    /\ app[p] = NoRequest
    /\ pc' = [pc EXCEPT ![p] = "idle"]
    /\ op' = [op EXCEPT ![p] = "none"]
    /\ arg' = [arg EXCEPT ![p] = NoArg]
    /\ now' = [now EXCEPT ![p] = 0]
    /\ row' = [row EXCEPT ![p] = NoRow]
    /\ ret' = [ret EXCEPT ![p] = None]
    /\ expect' = [expect EXCEPT ![p] = NoStore]
    /\ replaced' = [replaced EXCEPT ![p] = {}]
    /\ UNCHANGED <<pureVars, appVars, cacheVars, lastStore>>

\* time passes
Tick ==
    /\ \A q \in Procs : pc[q] # "done"
    /\ clock < MaxClock
    /\ clock' = clock + 1
    /\ lastStore' = [k \in DOMAIN lastStore |-> StillLive(lastStore[k], clock')]
    /\ expect' = [p \in Procs |-> StillLive(expect[p], clock')]
    /\ UNCHANGED <<pureVars, appVars, table, stores, procVars, replaced>>

-----------------------------------------------------------------------------
(* controversy.py: re.search on the patterns of the rule-based classifier *)

\* A pattern is the text of the source's raw string.  The matcher reads it as
\* re does: a sequence of atoms (a character, an escape, ".", a class
\* "[...]", a group "(...|...)"), each with an optional quantifier ("?",
\* "+", "*", "{m,n}").  A set of positions of the text (the number of
\* characters before the position) is carried through the pattern; the
\* pattern is found when the set is not empty at its end.

WordChars == {Char(LowerLetters, i) : i \in 1..26} \cup {Char(UpperLetters, i) : i \in 1..26}
                \cup {Char(Digits, i) : i \in 1..10} \cup {"_"}
                \cup {CapSigma, SmallSigma, FinalSigma, EAcute}

\* \b: exactly one side of position k is a word character
AtBoundary(s, k) ==
    (k > 0 /\ Char(s, k) \in WordChars) # (k < Len(s) /\ Char(s, k + 1) \in WordChars)

\* the index of the character that closes what opens at i ("]" for a class,
\* ")" for a group, nested groups counted)
RECURSIVE CloseOf(_, _, _)
CloseOf(pat, i, depth) ==
    LET ch == Char(pat, i)
    IN  IF ch = "\\" THEN CloseOf(pat, i + 2, depth)
        ELSE IF ch = "(" THEN CloseOf(pat, i + 1, depth + 1)
        ELSE IF ch = ")" THEN (IF depth = 1 THEN i ELSE CloseOf(pat, i + 1, depth - 1))
        ELSE CloseOf(pat, i + 1, depth)
RECURSIVE ClassClose(_, _)
ClassClose(pat, i) == IF Char(pat, i) = "]" THEN i ELSE ClassClose(pat, i + 1)

\* the index after the atom that starts at i
AtomEnd(pat, i) ==
    LET ch == Char(pat, i)
    IN  IF ch = "\\" THEN i + 2
        ELSE IF ch = "[" THEN ClassClose(pat, i + 1) + 1
        ELSE IF ch = "(" THEN CloseOf(pat, i, 0) + 1
        ELSE i + 1

RECURSIVE IndexOf(_, _, _)
IndexOf(pat, ch, i) == IF Char(pat, i) = ch THEN i ELSE IndexOf(pat, ch, i + 1)

\* the quantifier at j, if any: how often the atom before it repeats and
\* where the quantifier ends; -1 is no upper limit
Quantifier(pat, j) ==
    LET ch == IF j <= Len(pat) THEN Char(pat, j) ELSE ""
    IN  IF ch = "?" THEN [min |-> 0, max |-> 1, end |-> j + 1]
        ELSE IF ch = "+" THEN [min |-> 1, max |-> -1, end |-> j + 1]
        ELSE IF ch = "*" THEN [min |-> 0, max |-> -1, end |-> j + 1]
        ELSE IF ch = "{"
        THEN LET c == IndexOf(pat, ",", j)
                 e == IndexOf(pat, "}", j)
             IN  [min |-> ParseInt(SubSeq(pat, j + 1, c - 1)),
                  max |-> ParseInt(SubSeq(pat, c + 1, e - 1)), end |-> e + 1]
        ELSE [min |-> 1, max |-> 1, end |-> j]

\* the index of the next "|" of the alternation in pat[i..hi-1], or hi
RECURSIVE NextBar(_, _, _)
NextBar(pat, i, hi) ==
    IF i >= hi \/ Char(pat, i) = "|" THEN i ELSE NextBar(pat, AtomEnd(pat, i), hi)

\* the positions one character after those of S where the text has a
\* character of cs
Advance(s, S, cs) == {k + 1 : k \in {x \in S : x < Len(s) /\ Char(s, x + 1) \in cs}}

\* re.IGNORECASE: the characters that match a literal
BothCases(ch) ==
    {ch} \cup {Char(LowerLetters, i) : i \in {x \in 1..26 : Char(UpperLetters, x) = ch}}
         \cup {Char(UpperLetters, i) : i \in {x \in 1..26 : Char(LowerLetters, x) = ch}}

RECURSIVE MatchSeq(_, _, _, _, _)
RECURSIVE MatchAlt(_, _, _, _, _)
RECURSIVE Repeat(_, _, _, _, _, _, _, _)

\* one match of the atom pat[i..e-1] from the positions S
MatchAtom(pat, i, e, s, S) ==
    LET ch == Char(pat, i)
    IN  IF ch = "\\"
        THEN LET c == Char(pat, i + 1)
             IN  IF c = "b" THEN {k \in S : AtBoundary(s, k)}
                 ELSE IF c = "s" THEN Advance(s, S, Whitespace)
                 ELSE Advance(s, S, {c})
        ELSE IF ch = "." THEN {k + 1 : k \in {x \in S : x < Len(s) /\ Char(s, x + 1) # "\n"}}
        ELSE IF ch = "["
        THEN Advance(s, S, UNION {BothCases(Char(pat, x)) : x \in (i + 1)..(e - 2)})
        ELSE IF ch = "(" THEN MatchAlt(pat, i + 1, e - 1, s, S)
        ELSE Advance(s, S, BothCases(ch))

\* n matches of the atom were made and led to S; acc collects the positions
\* reached after min..max matches
Repeat(pat, i, e, s, S, n, q, acc) ==
    LET acc2 == IF n >= q.min THEN acc \cup S ELSE acc
    IN  IF S = {} \/ n = q.max \/ (n >= q.min /\ S \subseteq acc)
        THEN acc2
        ELSE Repeat(pat, i, e, s, MatchAtom(pat, i, e, s, S), n + 1, q, acc2)

\* the sequence pat[i..hi-1] from the positions S
MatchSeq(pat, i, hi, s, S) ==
    IF i >= hi \/ S = {} THEN S
    ELSE LET e == AtomEnd(pat, i)
             q == Quantifier(pat, e)
         IN  MatchSeq(pat, q.end, hi, s, Repeat(pat, i, e, s, S, 0, q, {}))

\* the alternation pat[i..hi-1] from the positions S
MatchAlt(pat, i, hi, s, S) ==
    LET bar == NextBar(pat, i, hi)
    IN  MatchSeq(pat, i, bar, s, S)
            \cup (IF bar < hi THEN MatchAlt(pat, bar + 1, hi, s, S) ELSE {})

\* re.search(pattern, string, re.IGNORECASE) finds a match
Search(pattern, string) ==
    MatchAlt(pattern, 1, Len(pattern) + 1, string, 0..Len(string)) # {}

-----------------------------------------------------------------------------
(* controversy.py: the rule-based classifier *)

\* ControversyLevel
NONE == "none"
LOW == "low"
MEDIUM == "medium"
HIGH == "high"

\* ControversyProfile with the defaults of its other fields
ControversyProfile(religious, political, regional) ==
    [religious |-> religious, political |-> political, regional |-> regional,
     divergent_communities |-> List(<<>>), reasoning |-> Str(""),
     intra_community_contrast |-> None]

\* TOPIC_PATTERNS, in the order of the dict
TOPIC_PATTERNS == <<
    [topic_category |-> "reproductive_rights",
     patterns |-> <<
        "\\babortion\\b", "\\breproductive\\s+rights?\\b",
        "\\bpro[- ]?(life|choice)\\b", "\\broe\\s+v\\.?\\s*wade\\b",
        "\\bpregnancy\\s+termination\\b">>,
     profile |-> ControversyProfile(HIGH, HIGH, LOW)],
    [topic_category |-> "climate_environment",
     patterns |-> <<
        "\\bclimate\\s+change\\b", "\\bglobal\\s+warming\\b",
        "\\bclimate\\s+policy\\b",
        "\\benvironmental\\s+(policy|protection)\\b",
        "\\bcarbon\\s+(tax|emissions?)\\b", "\\bgreen\\s+new\\s+deal\\b",
        "\\bclimate\\s+science\\b", "\\bclimate\\b",
        "\\benvironment\\s+and\\s+development\\b", "\\baddress\\s+climate\\b">>,
     profile |-> ControversyProfile(LOW, HIGH, MEDIUM)],
    [topic_category |-> "church_state_separation",
     patterns |-> <<
        "\\breligious\\s+symbols?\\b",
        "\\bpublic\\s+school.{0,20}(prayer|religious)\\b",
        "\\bchurch\\s+and\\s+state\\b", "\\bsecularism\\b",
        "\\blaicit[e" \o EAcute \o "]\\b",
        "\\breligious\\s+(clothing|dress|headwear)\\b", "\\bhijab\\b",
        "\\bturban\\b", "\\bburqa\\b", "\\breligious\\s+freedom\\b",
        "\\bprayer.{0,20}(school|public)\\b", "\\bschool.{0,20}prayer\\b">>,
     profile |-> ControversyProfile(HIGH, MEDIUM, HIGH)],
    [topic_category |-> "animal_rights_religious_law",
     patterns |-> <<
        "\\bcows?\\s+(be\\s+)?protected\\b", "\\bcow\\s+protection\\b",
        "\\bethics\\s+of\\s+cow\\b", "\\bprotect.{0,10}cows?\\b">>,
     profile |-> ControversyProfile(HIGH, LOW, HIGH)],
    [topic_category |-> "food_ethics_animal_rights",
     patterns |-> <<
        "\\b(eat|eating)\\s+(meat|animals?)\\b", "\\bvegetarian(ism)?\\b",
        "\\bvegan(ism)?\\b", "\\banimal\\s+rights?\\b", "\\bhalal\\b",
        "\\bkosher\\b", "\\bdietary\\s+law\\b",
        "\\bethics\\s+of\\s+(eating|food)\\b", "\\bethical\\s+to\\s+eat\\b",
        "\\bstop\\s+eating\\s+animals\\b",
        "\\barguments?\\s+for\\s+vegetarian\\b",
        "\\breligions?\\s+view.{0,20}(meat|eating)\\b">>,
     profile |-> ControversyProfile(HIGH, LOW, MEDIUM)],
    [topic_category |-> "economic_policy",
     patterns |-> <<
        "\\buniversal\\s+basic\\s+income\\b", "\\bUBI\\b",
        "\\bwelfare\\s+(state|system)\\b", "\\bredistribution\\b",
        "\\bminimum\\s+wage\\b", "\\bsocialism\\b", "\\bcapitalism\\b",
        "\\bfree\\s+market\\b">>,
     profile |-> ControversyProfile(LOW, HIGH, LOW)],
    [topic_category |-> "LGBTQ_rights",
     patterns |-> <<
        "\\bsame[- ]sex\\s+marriage\\b", "\\bgay\\s+marriage\\b",
        "\\bLGBTQ?\\+?\\b", "\\bhomosexual(ity)?\\b", "\\btransgender\\b",
        "\\bgender\\s+identity\\b", "\\bsexual\\s+orientation\\b",
        "\\bmarriage\\s+equality\\b", "\\bgovernment.{0,20}marriage\\b",
        "\\bmarriage.{0,20}(legal|government)\\b">>,
     profile |-> ControversyProfile(HIGH, HIGH, LOW)],
    [topic_category |-> "gun_rights",
     patterns |-> <<
        "\\bgun\\s+control\\b", "\\bgun\\s+rights?\\b",
        "\\b2nd\\s+amendment\\b", "\\bsecond\\s+amendment\\b",
        "\\bfirearm\\s+regulation\\b", "\\bgun\\s+violence\\b",
        "\\bgun\\s+laws?\\b", "\\bweapon\\s+ban\\b",
        "\\bgun\\s+polic(y|ies)\\b", "\\bprevent\\s+gun\\s+violence\\b">>,
     profile |-> ControversyProfile(LOW, HIGH, MEDIUM)],
    [topic_category |-> "indigenous_rights_environment",
     patterns |-> <<
        "\\bindigenous\\s+(rights?|lands?|peoples?)\\b",
        "\\bnative\\s+(american|rights?|lands?)\\b",
        "\\btribal\\s+(sovereignty|lands?)\\b", "\\bland\\s+rights?\\b",
        "\\bproperty\\s+rights?.{0,20}environment\\b",
        "\\bprotect.{0,20}(land|development)\\b",
        "\\benvironment.{0,20}development\\b",
        "\\bdevelopment.{0,20}environment\\b",
        "\\bbalance.{0,20}(environment|development)\\b",
        "\\bjobs?.{0,20}land\\b", "\\bland.{0,20}jobs?\\b",
        "\\becological.{0,20}importance\\b">>,
     profile |-> ControversyProfile(MEDIUM, MEDIUM, HIGH)],
    [topic_category |-> "immigration",
     patterns |-> <<
        "\\bimmigra(tion|nt)\\b", "\\bundocumented\\b",
        "\\billegal\\s+alien\\b", "\\bborder\\s+(security|wall|control)\\b",
        "\\bdeport(ation)?\\b", "\\bcitizenship\\s+path\\b", "\\brefugee\\b",
        "\\basylum\\b", "\\bvisa\\b", "\\bsecure\\s+the\\s+border\\b",
        "\\bborder\\s+communit(y|ies)\\b", "\\bamerican\\s+identity\\b">>,
     profile |-> ControversyProfile(LOW, HIGH, HIGH)],
    [topic_category |-> "disability_rights",
     patterns |-> <<
        "\\bautism\\b", "\\bdisability\\s+rights?\\b",
        "\\bneurodiver(gent|sity)\\b", "\\bperson[- ]first\\s+language\\b",
        "\\bidentity[- ]first\\b", "\\bspecial\\s+needs?\\b",
        "\\baccommodations?\\b", "\\bautistic\\b",
        "\\bcured?\\b.{0,20}autism\\b", "\\bautism.{0,20}cured?\\b",
        "\\bhelp.{0,20}autistic\\b", "\\bcauses?\\s+autism\\b",
        "\\bsupport.{0,20}neurodivergent\\b">>,
     profile |-> ControversyProfile(LOW, LOW, MEDIUM)],
    [topic_category |-> "gender_religious_freedom",
     patterns |-> <<
        "\\bhijab\\b", "\\bburqa\\b", "\\bniqab\\b", "\\bheadscarf\\b",
        "\\bwomen.{0,20}(wear|required|forced)\\b", "\\breligious\\s+dress\\b">>,
     profile |-> ControversyProfile(HIGH, MEDIUM, HIGH)],
    [topic_category |-> "religious_law",
     patterns |-> <<
        "\\breligious\\s+law\\b", "\\bsharia\\b", "\\bchurch\\s+law\\b",
        "\\breligious.{0,20}(state|enforced)\\b", "\\btheocra(cy|tic)\\b",
        "\\bdietary\\s+laws?.{0,20}(state|enforced)\\b">>,
     profile |-> ControversyProfile(HIGH, MEDIUM, LOW)]
>>

FACTUAL_PATTERNS == <<
    "\\bcapital\\s+of\\b",
    "\\bhow\\s+(do|to)\\s+(make|cook|write|code|program)\\b",
    "\\bwhat\\s+time\\b", "\\bwho\\s+won\\b", "\\bfor\\s+loop\\b",
    "\\brecipe\\b", "\\bprogramming\\b", "\\bsyntax\\b">>

\* some pattern of the list, tried in order from the i-th, is found
RECURSIVE AnyPattern(_, _, _)
AnyPattern(patterns, i, string) ==
    /\ i <= Len(patterns)
    /\ Search(patterns[i], string) \/ AnyPattern(patterns, i + 1, string)

\* a mutant of the loop over the topic groups that does not stop at the first
\* group that matches: the last one wins
LastTopic(query_lower, t) ==
    LET hits == {g \in t..Len(TOPIC_PATTERNS) :
                    AnyPattern(TOPIC_PATTERNS[g].patterns, 1, query_lower)}
    IN  IF hits = {} THEN 0 ELSE CHOOSE g \in hits : \A h \in hits : h <= g

\* the first topic group, from the t-th on, with a pattern the query matches;
\* 0 when there is none
RECURSIVE FirstTopic(_, _)
FirstTopic(query_lower, t) ==
    IF t > Len(TOPIC_PATTERNS) THEN 0
    ELSE IF AnyPattern(TOPIC_PATTERNS[t].patterns, 1, query_lower) THEN t
    ELSE FirstTopic(query_lower, t + 1)

\* what detect_controversy returns: the tuple (profile, topic_category)
Classified(profile, topic_category) ==
    [profile |-> profile, topic_category |-> topic_category]

\* a mutant of detect_controversy that tries the topic groups before the
\* factual patterns
DetectTopicsFirst(query) ==
    LET query_lower == Lower(query)
        t == FirstTopic(query_lower, 1)
    IN  IF t # 0
        THEN Classified(TOPIC_PATTERNS[t].profile, Str(TOPIC_PATTERNS[t].topic_category))
        ELSE IF AnyPattern(FACTUAL_PATTERNS, 1, query_lower)
        THEN Classified(ControversyProfile(NONE, NONE, NONE), None)
        ELSE Classified(ControversyProfile(LOW, LOW, LOW), None)

\* a mutant of detect_controversy whose default profile is (MEDIUM, MEDIUM,
\* MEDIUM)
DetectDefaultMedium(query) ==
    LET query_lower == Lower(query)
    IN  IF AnyPattern(FACTUAL_PATTERNS, 1, query_lower)
        THEN Classified(ControversyProfile(NONE, NONE, NONE), None)
        ELSE LET t == FirstTopic(query_lower, 1)
             IN  IF t # 0
                 THEN Classified(TOPIC_PATTERNS[t].profile,
                                 Str(TOPIC_PATTERNS[t].topic_category))
                 ELSE Classified(ControversyProfile(MEDIUM, MEDIUM, MEDIUM), None)

detect_controversy(query) ==
    LET query_lower == Lower(query)
    IN  IF AnyPattern(FACTUAL_PATTERNS, 1, query_lower)
        THEN Classified(ControversyProfile(NONE, NONE, NONE), None)
        ELSE LET t == FirstTopic(query_lower, 1)
             IN  IF t # 0
                 THEN Classified(TOPIC_PATTERNS[t].profile,
                                 Str(TOPIC_PATTERNS[t].topic_category))
                 ELSE Classified(ControversyProfile(LOW, LOW, LOW), None)

\* the profile objects of the module-level table, as declared
DeclaredProfiles == [t \in DOMAIN TOPIC_PATTERNS |-> TOPIC_PATTERNS[t].profile]

\* the group of TOPIC_PATTERNS named topic_category
TopicIndex(topic_category) ==
    CHOOSE t \in DOMAIN TOPIC_PATTERNS : TOPIC_PATTERNS[t].topic_category = topic_category

\* detect_controversy on the table as it is now: line 432 returns the
\* profile object of the table itself, so the caller reads what the object
\* holds; the factual and the default profile are built by the call
DetectShared(profiles, query) ==
    LET declared == detect_controversy(query) IN
    IF declared.topic_category = None THEN declared
    ELSE Classified(profiles[TopicIndex(declared.topic_category.val)], declared.topic_category)

\* no query is put, nothing is returned yet
NoQuery == None
NoResult == None

\* no other function is being called
FunParked ==
    /\ fcall = None
    /\ fresult = None

\* a query is put to the classifier
Ask(query) ==
    /\ dquery = NoQuery
    /\ dquery' = Str(query)
    /\ UNCHANGED <<triple1, triple2, key1, key2, dresult, topic_profiles, funVars,
                   cacheVars, procVars, histVars, appVars>>

\* the classifier answers
Classify ==
    /\ dquery # NoQuery
    /\ dresult = NoResult
    /\ dresult' = DetectShared(topic_profiles, dquery.val)
    /\ UNCHANGED <<triple1, triple2, key1, key2, dquery, topic_profiles, funVars,
                   cacheVars, procVars, histVars, appVars>>

\* the answer is taken
Answered ==
    /\ dresult # NoResult
    /\ dquery' = NoQuery
    /\ dresult' = NoResult
    /\ UNCHANGED <<triple1, triple2, key1, key2, topic_profiles, funVars, cacheVars,
                   procVars, histVars, appVars>>

\* a caller's change to the profile it was returned
ProfileChanges == {"religious", "divergent_communities"}
Changed(profile, what) ==
    IF what = "religious" THEN [profile EXCEPT !.religious = NONE]
    ELSE [profile EXCEPT !.divergent_communities = List(Append(@.items, Str("x")))]

\* The caller assigns to a field of the returned profile or appends to its
\* divergent_communities.  The profile of a topic group is the object the
\* table holds, so the table sees the change; the factual and the default
\* profile are the caller's alone.
ChangeReturned ==
    /\ dresult # NoResult
    /\ \E what \in ProfileChanges :
        /\ what = "religious" => dresult.profile.religious # NONE
        /\ what = "divergent_communities" => Len(dresult.profile.divergent_communities.items) < MaxAppends
        /\ dresult' = [dresult EXCEPT !.profile = Changed(@, what)]
        /\ topic_profiles' =
               IF dresult.topic_category = None THEN topic_profiles
               ELSE [topic_profiles EXCEPT ![TopicIndex(dresult.topic_category.val)] = Changed(dresult.profile, what)]
    /\ UNCHANGED <<triple1, triple2, key1, key2, dquery, funVars, cacheVars,
                   procVars, histVars, appVars>>

-----------------------------------------------------------------------------
(* controversy.py: the methods of ControversyProfile *)

ControversyLevels == {NONE, LOW, MEDIUM, HIGH}

\* a mutant of should_surface_perspectives that surfaces on HIGH only
SurfaceHighOnly(self) ==
    \/ self.religious = HIGH
    \/ self.political = HIGH
    \/ self.regional = HIGH

should_surface_perspectives(self) ==
    LET high_controversy == {MEDIUM, HIGH}
    IN  \/ self.religious \in high_controversy
        \/ self.political \in high_controversy
        \/ self.regional \in high_controversy

max_controversy_level(self) ==
    LET levels == {self.religious, self.political, self.regional}
    IN  IF HIGH \in levels THEN HIGH
        ELSE IF MEDIUM \in levels THEN MEDIUM
        ELSE IF LOW \in levels THEN LOW
        ELSE NONE

\* a function is called with its arguments
FunCall(c) ==
    /\ fcall = None
    /\ fresult = None
    /\ fcall' = c
    /\ UNCHANGED <<keysVars, detectVars, fresult, systemVars>>

\* the call under way is a call of fn that has not returned
Calling(fn) == fcall # None /\ fresult = None /\ fcall.fn = fn

\* the call of fn has returned
Returned(fn) == fcall # None /\ fresult # None /\ fcall.fn = fn

\* the caller has the result
FunReturn ==
    /\ fresult # None
    /\ fcall' = None
    /\ fresult' = None
    /\ UNCHANGED <<keysVars, detectVars, systemVars>>

\* both methods are evaluated on the profile
EvalProfile ==
    /\ Calling("ControversyProfile")
    /\ fresult' = [should_surface_perspectives |-> should_surface_perspectives(fcall.self),
                   max_controversy_level |-> max_controversy_level(fcall.self)]
    /\ UNCHANGED <<keysVars, detectVars, fcall, systemVars>>

-----------------------------------------------------------------------------
(* app.py: lookup-or-generate *)

\* ttl_days of a store that passes none, as every store of app.py does
DefaultTtlDays == 30

\* str.startswith
StartsWith(s, prefix) ==
    Len(s) >= Len(prefix) /\ SubSeq(s, 1, Len(prefix)) = prefix

\* the truth value Python gives a returned text or None: "if cached:"
Truthy(v) == v # None /\ v.val # ""

OpenAIClient == [kind |-> "OpenAI"]
Clients == {None, OpenAIClient}

NotConfigured == "[OpenAI client not configured: set OPENAI_API_KEY env var]"
ApiError == "[Error calling OpenAI API: e]"
\* what the model may answer to one prompt: it is sampled, so the same
\* prompt has more than one answer
LlmTexts == {"g1", "g2", ""}

\* generate_completion: the texts it can return
generate_completion(client) ==
    IF client = None THEN {NotConfigured} ELSE LlmTexts \cup {ApiError}

\* the community string generate_perspective hands to the cache
PerspectiveCacheKey(community, composite_communities) ==
    IF Len(composite_communities) > 1
    THEN Join(composite_communities, "_")
    ELSE community

\* the community string generate_communal_perspective hands to the cache
CommunalCacheKey(community, is_lead) ==
    IF is_lead THEN "communal_lead_" \o community ELSE "communal_" \o community

\* the requests in progress
Running == {q \in Procs : app[q].pc \in {"lookup", "generate", "storing"}}

\* the caller's cache operation is over and its locals are dropped
CacheCallOver(p) ==
    /\ pc[p] = "done"
    /\ pc' = [pc EXCEPT ![p] = "idle"]
    /\ op' = [op EXCEPT ![p] = "none"]
    /\ arg' = [arg EXCEPT ![p] = NoArg]
    /\ now' = [now EXCEPT ![p] = 0]
    /\ row' = [row EXCEPT ![p] = NoRow]
    /\ ret' = [ret EXCEPT ![p] = None]
    /\ expect' = [expect EXCEPT ![p] = NoStore]
    /\ replaced' = [replaced EXCEPT ![p] = {}]

\* Both handlers from their cache key on: the guarded lookup, app.py lines
\* 85-86 and 128-129.  A request notes the requests it overlaps with.  No
\* request starts while a finished one waits to be handed back: handing back
\* touches nothing shared, so it may as well come first.
Lookup(p, fn, client, cache_key, topic_category, question, use_cache) ==
    LET r == [pc |-> IF use_cache /\ topic_category # "" THEN "lookup" ELSE "generate",
              fn |-> fn, client |-> client, cache_key |-> cache_key,
              topic_category |-> topic_category, question |-> question,
              use_cache |-> use_cache, perspective |-> "", result |-> None,
              concurrent |-> Running \ {p}]
    IN  /\ app[p] = NoRequest
        /\ \A q \in Procs : app[q].pc # "done"
        /\ app' = [q \in Procs |->
                    IF q = p THEN r
                    ELSE IF q \in Running
                         THEN [app[q] EXCEPT !.concurrent = @ \cup {p}]
                         ELSE app[q]]
        /\ IF use_cache /\ topic_category # ""
           THEN GetSelect(p, cache_key, topic_category, question)
           ELSE /\ Idle(p)
                /\ UNCHANGED <<pureVars, cacheVars, procVars, histVars>>

\* generate_perspective, lines 79-86
generate_perspective(p, client, community, topic_category, question, use_cache, composite_communities) ==
    Lookup(p, "generate_perspective", client,
           PerspectiveCacheKey(community, composite_communities),
           topic_category, question, use_cache)

\* generate_communal_perspective, lines 122-129
generate_communal_perspective(p, client, community, topic_category, question, is_lead, use_cache) ==
    Lookup(p, "generate_communal_perspective", client,
           CommunalCacheKey(community, is_lead),
           topic_category, question, use_cache)

\* lines 87-88 and 130-131: "if cached: return cached"
AfterLookup(p) ==
    /\ app[p].pc = "lookup"
    /\ CacheCallOver(p)
    /\ app' = [app EXCEPT ![p] =
                IF Truthy(ret[p])
                THEN [@ EXCEPT !.pc = "done", !.client = None, !.result = ret[p]]
                ELSE [@ EXCEPT !.pc = "generate"]]
    /\ UNCHANGED <<pureVars, cacheVars, lastStore>>

\* a mutant of the completion-and-store step that stores whatever text the
\* completion returned
GenerateStoresAll(p) ==
    /\ app[p].pc = "generate"
    /\ \E text \in generate_completion(app[p].client) :
        IF app[p].use_cache /\ app[p].topic_category # ""
        THEN /\ StoreNow(p, app[p].cache_key, app[p].topic_category,
                         app[p].question, text, DefaultTtlDays)
             /\ app' = [app EXCEPT ![p].pc = "storing", ![p].client = None,
                                   ![p].perspective = text]
        ELSE /\ Idle(p)
             /\ app' = [app EXCEPT ![p].pc = "done", ![p].client = None,
                                   ![p].result = Str(text)]
             /\ UNCHANGED <<pureVars, cacheVars, procVars, histVars>>

\* lines 90-99 and 133-140: the completion, and the store when the request
\* caches and the text is no placeholder
Generate(p) ==
    /\ app[p].pc = "generate"
    /\ \E text \in generate_completion(app[p].client) :
        IF app[p].use_cache /\ app[p].topic_category # "" /\ ~StartsWith(text, "[")
        THEN /\ StoreNow(p, app[p].cache_key, app[p].topic_category,
                         app[p].question, text, DefaultTtlDays)
             /\ app' = [app EXCEPT ![p].pc = "storing", ![p].client = None,
                                   ![p].perspective = text]
        ELSE /\ Idle(p)
             /\ app' = [app EXCEPT ![p].pc = "done", ![p].client = None,
                                   ![p].result = Str(text)]
             /\ UNCHANGED <<pureVars, cacheVars, procVars, histVars>>

\* lines 101 and 142: the generated text is returned after the store
AfterStore(p) ==
    /\ app[p].pc = "storing"
    /\ CacheCallOver(p)
    /\ app' = [app EXCEPT ![p].pc = "done", ![p].perspective = "",
                          ![p].result = Str(app[p].perspective)]
    /\ UNCHANGED <<pureVars, cacheVars, lastStore>>

\* the request's caller has its text
Finish(p) ==
    /\ app[p].pc = "done"
    /\ \A q \in Procs : pc[q] # "done"
    /\ app' = [app EXCEPT ![p] = NoRequest]
    /\ UNCHANGED <<pureVars, cacheVars, procVars, histVars>>

-----------------------------------------------------------------------------
(* controversy.py: detect_controversy_llm *)

\* an exception leaves the function / the function returns value
Raised == [raised |-> TRUE]
Returns(value) == [raised |-> FALSE, value |-> value]

\* json.loads: the whitespace JSON allows between tokens
JsonWhitespace == {" ", "\t", "\n", "\r"}

RECURSIVE SkipWs(_, _)
SkipWs(s, i) ==
    IF i <= Len(s) /\ Char(s, i) \in JsonWhitespace THEN SkipWs(s, i + 1) ELSE i

\* the text t stands at position i of s
StartsWithAt(s, i, t) ==
    i + Len(t) - 1 <= Len(s) /\ SubSeq(s, i, i + Len(t) - 1) = t

\* a parse that failed / that read value and stopped before position next
JsonFail == [ok |-> FALSE]
JsonOk(value, next) == [ok |-> TRUE, value |-> value, next |-> next]

\* the characters a backslash may introduce, and what they stand for
JsonEscapes == [c \in {"\"", "\\", "/", "n", "t"} |-> IF c = "n" THEN "\n" ELSE IF c = "t" THEN "\t" ELSE c]

\* the body of a string, from the character after its opening quote
RECURSIVE ParseString(_, _, _)
ParseString(s, i, acc) ==
    IF i > Len(s) THEN JsonFail
    ELSE LET ch == Char(s, i) IN
         IF ch = "\"" THEN JsonOk(acc, i + 1)
         ELSE IF ch = "\\"
              THEN IF i + 1 <= Len(s) /\ Char(s, i + 1) \in DOMAIN JsonEscapes
                   THEN ParseString(s, i + 2, acc \o JsonEscapes[Char(s, i + 1)])
                   ELSE JsonFail
         ELSE IF ch \in {"\t", "\n", "\r"} THEN JsonFail
         ELSE ParseString(s, i + 1, acc \o ch)

DigitChars == {Char(Digits, n) : n \in 1..10}

\* the end of the run of digits that starts at i
RECURSIVE DigitsEnd(_, _)
DigitsEnd(s, i) ==
    IF i <= Len(s) /\ Char(s, i) \in DigitChars THEN DigitsEnd(s, i + 1) ELSE i

\* a number: -? (0 | [1-9][0-9]*) (. [0-9]+)?
ParseNumber(s, i) ==
    LET neg == i <= Len(s) /\ Char(s, i) = "-"
        first == IF neg THEN i + 1 ELSE i
        stop == DigitsEnd(s, first)
        intEnd == IF first <= Len(s) /\ Char(s, first) = "0" THEN first + 1 ELSE stop
        magnitude == ParseInt(SubSeq(s, first, intEnd - 1))
        fracEnd == IF intEnd <= Len(s) /\ Char(s, intEnd) = "." THEN DigitsEnd(s, intEnd + 1) ELSE intEnd
    IN  IF stop = first THEN JsonFail
        ELSE IF fracEnd > intEnd + 1 THEN JsonOk(Float(SubSeq(s, i, fracEnd - 1)), fracEnd)
        ELSE JsonOk(IntVal(IF neg THEN 0 - magnitude ELSE magnitude), intEnd)

RECURSIVE ParseValue(_, _)
RECURSIVE ParseElements(_, _, _)
RECURSIVE ParseMembers(_, _, _)

\* the elements of an array, from the first of them; acc holds those read
ParseElements(s, i, acc) ==
    LET element == ParseValue(s, SkipWs(s, i)) IN
    IF ~element.ok THEN JsonFail
    ELSE LET j == SkipWs(s, element.next)
             items == Append(acc, element.value)
         IN  IF j > Len(s) THEN JsonFail
             ELSE IF Char(s, j) = "," THEN ParseElements(s, j + 1, items)
             ELSE IF Char(s, j) = "]" THEN JsonOk(List(items), j + 1)
             ELSE JsonFail

\* the members of an object, from the first of them; acc holds those read
ParseMembers(s, i, acc) ==
    LET k == SkipWs(s, i) IN
    IF k > Len(s) \/ Char(s, k) # "\"" THEN JsonFail
    ELSE LET name == ParseString(s, k + 1, "") IN
         IF ~name.ok THEN JsonFail
         ELSE LET colon == SkipWs(s, name.next) IN
              IF colon > Len(s) \/ Char(s, colon) # ":" THEN JsonFail
              ELSE LET member == ParseValue(s, SkipWs(s, colon + 1)) IN
                   IF ~member.ok THEN JsonFail
                   ELSE LET j == SkipWs(s, member.next)
                            items == Append(acc, <<name.value, member.value>>)
                        IN  IF j > Len(s) THEN JsonFail
                            ELSE IF Char(s, j) = "," THEN ParseMembers(s, j + 1, items)
                            ELSE IF Char(s, j) = "}" THEN JsonOk(Dict(items), j + 1)
                            ELSE JsonFail

\* the value that starts at position i
ParseValue(s, i) ==
    IF i > Len(s) THEN JsonFail
    ELSE LET ch == Char(s, i) IN
         IF ch = "\"" THEN LET text == ParseString(s, i + 1, "") IN
                            IF text.ok THEN JsonOk(Str(text.value), text.next) ELSE JsonFail
         ELSE IF ch = "{" THEN IF StartsWithAt(s, SkipWs(s, i + 1), "}")
                                THEN JsonOk(Dict(<<>>), SkipWs(s, i + 1) + 1)
                                ELSE ParseMembers(s, i + 1, <<>>)
         ELSE IF ch = "[" THEN IF StartsWithAt(s, SkipWs(s, i + 1), "]")
                                THEN JsonOk(List(<<>>), SkipWs(s, i + 1) + 1)
                                ELSE ParseElements(s, i + 1, <<>>)
         ELSE IF StartsWithAt(s, i, "true") THEN JsonOk(Bool(TRUE), i + 4)
         ELSE IF StartsWithAt(s, i, "false") THEN JsonOk(Bool(FALSE), i + 5)
         ELSE IF StartsWithAt(s, i, "null") THEN JsonOk(None, i + 4)
         ELSE ParseNumber(s, i)

\* json.loads(s): one value with nothing but whitespace around it, or
\* JSONDecodeError
json_loads(s) ==
    LET parsed == ParseValue(s, SkipWs(s, 1)) IN
    IF parsed.ok /\ SkipWs(s, parsed.next) > Len(s) THEN Returns(parsed.value) ELSE Raised

\* the value of the last member of items named key, default if there is none
RECURSIVE ItemsGet(_, _, _)
ItemsGet(items, key, default) ==
    IF items = <<>> THEN default
    ELSE LET last == items[Len(items)] IN
         IF last[1] = key THEN last[2]
         ELSE ItemsGet(SubSeq(items, 1, Len(items) - 1), key, default)

\* result.get(key, default); AttributeError when result is no dict
DictGet(result, key, default) ==
    IF result.kind = "dict" THEN Returns(ItemsGet(result.items, key, default)) ELSE Raised

\* the position at which sep first occurs in s, 0 if nowhere
Find(s, sep) ==
    LET hits == {i \in 1..Len(s) : StartsWithAt(s, i, sep)} IN
    IF hits = {} THEN 0 ELSE CHOOSE i \in hits : \A j \in hits : i <= j

\* s.split(sep)
RECURSIVE SplitOn(_, _)
SplitOn(s, sep) ==
    LET at == Find(s, sep) IN
    IF at = 0 THEN <<s>>
    ELSE <<SubSeq(s, 1, at - 1)>> \o SplitOn(SubSeq(s, at + Len(sep), Len(s)), sep)

\* the grave accent, written ^, and the fence of a markdown code block
GraveAccent == "^"
Fence == GraveAccent \o GraveAccent \o GraveAccent

\* lines 173-177: the content of a fenced code block, less its language tag
Unfence(result_text) ==
    IF StartsWith(result_text, Fence)
    THEN LET inner == SplitOn(result_text, Fence)[2]
             body == IF StartsWith(inner, "json") THEN SubSeq(inner, 5, Len(inner)) ELSE inner
         IN  Strip(body)
    ELSE result_text

level_map == [s \in {"none", "low", "medium", "high"} |-> s]

\* AttributeError when level_str has no lower(); LOW for a text the map lacks
_parse_level(level_str) ==
    IF level_str.kind # "str" THEN Raised
    ELSE LET lowered == Lower(level_str.val) IN
         Returns(IF lowered \in DOMAIN level_map THEN level_map[lowered] ELSE LOW)

\* lines 155-157: how the prompt names the user
UserIdentity(user_communities) ==
    IF user_communities = None \/ user_communities.items = <<>> THEN "unknown"
    ELSE Join(SelectSeq(user_communities.items, LAMBDA c : c # ""), " + ")

\* the backend raised / answered with message content
BackendRaises == [kind |-> "raises", content |-> None]
BackendAnswers(content) == [kind |-> "answers", content |-> content]

\* lines 162-192, the body of the try: the reply is read into a profile and a
\* topic, and any step of it may raise
LlmAttempt(query, user_identity, backend) ==
    IF backend.kind = "raises" \/ backend.content.kind # "str" THEN Raised
    ELSE LET loaded == json_loads(Unfence(Strip(backend.content.val))) IN
         IF loaded.raised \/ loaded.value.kind # "dict" THEN Raised
         ELSE LET result == loaded.value
                  religious == _parse_level(DictGet(result, "religious_level", Str("low")).value)
                  political == _parse_level(DictGet(result, "political_level", Str("low")).value)
                  regional == _parse_level(DictGet(result, "regional_level", Str("low")).value)
              IN  IF religious.raised \/ political.raised \/ regional.raised THEN Raised
                  ELSE Returns(Classified([religious |-> religious.value,
                                           political |-> political.value,
                                           regional |-> regional.value,
                                           divergent_communities |-> DictGet(result, "divergent_communities", List(<<>>)).value,
                                           reasoning |-> DictGet(result, "reasoning", Str("")).value,
                                           intra_community_contrast |-> DictGet(result, "intra_community_contrast", None).value],
                                          DictGet(result, "topic_category", None).value))

\* the try without its except clause
DetectLlmUnguarded(query, llm_client, user_communities, backend) ==
    IF llm_client = None THEN Returns(detect_controversy(query))
    ELSE LlmAttempt(query, UserIdentity(user_communities), backend)

detect_controversy_llm(query, llm_client, user_communities, backend) ==
    IF llm_client = None THEN Returns(detect_controversy(query))
    ELSE LET attempt == LlmAttempt(query, UserIdentity(user_communities), backend) IN
         IF attempt.raised THEN Returns(detect_controversy(query)) ELSE attempt

-----------------------------------------------------------------------------
(* communities.py: the community registry *)

\* CommunityTier
TIER_1_RELIGIOUS == "TIER_1_RELIGIOUS"
TIER_2_POLITICAL == "TIER_2_POLITICAL"
TIER_4_PROFESSIONAL == "TIER_4_PROFESSIONAL"
TIER_5_IDENTITY == "TIER_5_IDENTITY"

\* an entry of the registry: a display name and a tier
Community(name, tier) == [kind |-> "Community", name |-> name, tier |-> tier]

\* the entry of community_id, None for an identifier the registry lacks
get_community(registry, community_id) ==
    IF community_id \in DOMAIN registry THEN registry[community_id] ELSE None

\* the display name of community_id, the identifier itself when unknown
get_community_name(registry, community_id) ==
    IF community_id \in DOMAIN registry THEN registry[community_id].name ELSE community_id

-----------------------------------------------------------------------------
(* community_selection.py: select_communities *)

UserProfile(primary_type, primary, secondary_type, secondary, tertiary) == [primary_community_type |-> primary_type, primary_community |-> primary, secondary_community_type |-> secondary_type, secondary_community |-> secondary, tertiary_community |-> tertiary]

get_communities(self) ==
    <<self.primary_community>>
        \o (IF Truthy(self.secondary_community) THEN <<self.secondary_community.val>> ELSE <<>>)
        \o (IF Truthy(self.tertiary_community) THEN <<self.tertiary_community.val>> ELSE <<>>)

is_religious(self) == self.primary_community_type = "religious"

\* the elements of a list
Elements(list) == {list[i] : i \in DOMAIN list}

SelectedCommunities(baseline, additional, rationale) ==
    [baseline |-> baseline, additional |-> additional, rationale |-> rationale]

TOPIC_COMMUNITY_MAPPINGS ==
    "reproductive_rights" :>
        [religious |-> <<"Catholic", "evangelical_protestant", "reform_jewish", "Muslim_Sunni">>,
         political |-> <<"progressive", "conservative", "libertarian">>,
         identity |-> <<"women", "feminist">>]
    @@ "climate_environment" :>
        [professional |-> <<"climate_scientist", "environmental_scientist", "economist">>,
         political |-> <<"progressive", "conservative", "libertarian", "environmentalist">>,
         regional |-> <<"Global_South", "indigenous">>]
    @@ "church_state_separation" :>
        [religious |-> <<"Muslim_Sunni", "Sikh", "evangelical_protestant", "Catholic">>,
         secular |-> <<"atheist">>,
         political |-> <<"progressive", "conservative", "libertarian">>]
    @@ "food_ethics_animal_rights" :>
        [religious |-> <<"Hindu", "Buddhist", "Jain", "Muslim_Sunni", "Jewish_Orthodox">>,
         identity |-> <<"vegetarian", "animal_rights_activist">>,
         professional |-> <<"environmental_scientist">>]
    @@ "economic_policy" :>
        [political |-> <<"progressive", "conservative", "libertarian", "socialist">>,
         professional |-> <<"economist">>,
         identity |-> <<"working_class", "labor_union">>]
    @@ "LGBTQ_rights" :>
        [religious |-> <<"evangelical_protestant", "Catholic", "reform_jewish", "mainline_protestant">>,
         political |-> <<"progressive", "conservative", "libertarian">>,
         identity |-> <<"LGBTQ_gay">>]
    @@ "gun_rights" :>
        [political |-> <<"progressive", "conservative", "libertarian">>,
         professional |-> <<"law_enforcement">>,
         identity |-> <<"gun_owner", "gun_violence_survivor", "parent">>]
    @@ "indigenous_rights_environment" :>
        [identity |-> <<"indigenous", "local_community">>,
         political |-> <<"progressive", "conservative", "libertarian", "environmentalist">>,
         professional |-> <<"environmental_scientist">>]
    @@ "immigration" :>
        [political |-> <<"progressive", "conservative", "libertarian">>,
         identity |-> <<"immigrant", "second_generation">>,
         regional |-> <<"border_community">>,
         professional |-> <<"economist">>]
    @@ "disability_rights" :>
        [identity |-> <<"neurodivergent", "parent_of_disabled", "disability_rights_advocate">>,
         professional |-> <<"medical_researcher", "educator">>]
    @@ "gender_religious_freedom" :>
        [religious |-> <<"Muslim_Sunni", "Sikh">>,
         political |-> <<"progressive", "conservative", "libertarian">>,
         identity |-> <<"feminist", "women">>]
    @@ "religious_law" :>
        [religious |-> <<"Muslim_Sunni", "Catholic", "Jewish_Orthodox", "evangelical_protestant">>,
         secular |-> <<"atheist">>,
         political |-> <<"progressive", "conservative", "libertarian">>]

\* d.get(key, default) on a dict of lists
MappingGet(d, key, default) == IF key \in DOMAIN d THEN d[key] ELSE default

\* line 172: the lists of the topic, none for a topic the table lacks
TopicCommunities(topic_category) ==
    IF topic_category # None /\ topic_category.val \in DOMAIN TOPIC_COMMUNITY_MAPPINGS
    THEN TOPIC_COMMUNITY_MAPPINGS[topic_category.val]
    ELSE <<>>

get_controversy_dimensions(profile) ==
    (IF profile.religious \in {MEDIUM, HIGH} THEN <<"religious">> ELSE <<>>)
        \o (IF profile.political \in {MEDIUM, HIGH} THEN <<"political">> ELSE <<>>)
        \o (IF profile.regional \in {MEDIUM, HIGH} THEN <<"regional">> ELSE <<>>)

\* an entry of candidates
Candidate(community, reason) == [community |-> community, reason |-> reason]

\* the first of options that is not among held, as a list of at most one
FirstNotHeld(options, held) ==
    LET free == {i \in DOMAIN options : options[i] \notin held} IN
    IF free = {} THEN <<>> ELSE <<options[CHOOSE i \in free : \A j \in free : i <= j]>>

\* lines 178-189
ReligiousRule(user, controversy_profile, topic_communities) ==
    IF controversy_profile.religious \notin {MEDIUM, HIGH} THEN <<>>
    ELSE IF is_religious(user)
         THEN IF "atheist" \notin Elements(get_communities(user))
              THEN <<Candidate("secular_progressive", "secular counterpoint")>>
              ELSE <<>>
         ELSE LET religious_options == MappingGet(topic_communities, "religious", <<"Catholic", "evangelical_protestant">>)
                  comm == FirstNotHeld(religious_options, Elements(get_communities(user)))
              IN  IF comm = <<>> THEN <<>> ELSE <<Candidate(comm[1], "religious perspective")>>

\* lines 193-197
UserPolitics(user) ==
    IF user.primary_community_type = "political" THEN Str(user.primary_community)
    ELSE IF user.secondary_community_type = Str("political") THEN user.secondary_community
    ELSE None

\* the political rule with the table of oppositions turned round
PoliticalRuleSameSide(user, controversy_profile) ==
    IF controversy_profile.political \notin {MEDIUM, HIGH} THEN <<>>
    ELSE IF UserPolitics(user) \in {Str("progressive"), Str("socialist")}
         THEN <<Candidate("progressive", "progressive political perspective")>>
         ELSE <<Candidate("conservative", "conservative political perspective")>>

\* lines 191-209
PoliticalRule(user, controversy_profile) ==
    IF controversy_profile.political \notin {MEDIUM, HIGH} THEN <<>>
    ELSE LET user_politics == UserPolitics(user) IN
         IF user_politics \in {Str("progressive"), Str("socialist")}
         THEN <<Candidate("conservative", "conservative political perspective")>>
         ELSE IF user_politics \in {Str("conservative")}
         THEN <<Candidate("progressive", "progressive political perspective")>>
         ELSE IF user_politics = Str("libertarian")
         THEN <<Candidate("progressive", "progressive perspective"),
                Candidate("conservative", "conservative perspective")>>
         ELSE <<Candidate("progressive", "progressive perspective")>>

\* the identity rule without its test of the tier
RECURSIVE IdentityRuleAnyTier(_, _, _, _)
IdentityRuleAnyTier(user, identity_communities, registry, i) ==
    IF i > Len(identity_communities) THEN [candidates |-> <<>>, rationale_parts |-> <<>>]
    ELSE LET identity_comm == identity_communities[i]
             rest == IdentityRuleAnyTier(user, identity_communities, registry, i + 1)
         IN  IF identity_comm \in Elements(get_communities(user))
             THEN [rest EXCEPT !.rationale_parts = <<"User is directly affected as " \o get_community_name(registry, identity_comm)>> \o @]
             ELSE [rest EXCEPT !.candidates = <<Candidate(identity_comm, get_community_name(registry, identity_comm) \o " perspective (affected community)")>> \o @]

\* lines 212-221: the candidates and the rationale parts of the identity
\* communities from the i-th on
RECURSIVE IdentityRule(_, _, _, _)
IdentityRule(user, identity_communities, registry, i) ==
    IF i > Len(identity_communities) THEN [candidates |-> <<>>, rationale_parts |-> <<>>]
    ELSE LET identity_comm == identity_communities[i]
             rest == IdentityRule(user, identity_communities, registry, i + 1)
             community == get_community(registry, identity_comm)
         IN  IF identity_comm \in Elements(get_communities(user))
             THEN [rest EXCEPT !.rationale_parts = <<"User is directly affected as " \o get_community_name(registry, identity_comm)>> \o @]
             ELSE IF community # None /\ community.tier = TIER_5_IDENTITY
             THEN [rest EXCEPT !.candidates = <<Candidate(identity_comm, get_community_name(registry, identity_comm) \o " perspective (affected community)")>> \o @]
             ELSE rest

\* the professional rule without its break: every free community is proposed
ProfessionalRuleAll(user, topic_communities, registry) ==
    LET professional_communities == MappingGet(topic_communities, "professional", <<>>)
        free == SelectSeq(professional_communities, LAMBDA c : c \notin Elements(get_communities(user)))
    IN  [i \in DOMAIN free |-> Candidate(free[i], get_community_name(registry, free[i]) \o " expertise")]

\* lines 224-228
ProfessionalRule(user, topic_communities, registry) ==
    LET professional_communities == MappingGet(topic_communities, "professional", <<>>)
        prof_comm == FirstNotHeld(professional_communities, Elements(get_communities(user)))
    IN  IF prof_comm = <<>> THEN <<>>
        ELSE <<Candidate(prof_comm[1], get_community_name(registry, prof_comm[1]) \o " expertise")>>

\* lines 175-228: what each rule appends to candidates, and the rationale
\* parts the identity rule leaves
RuleCandidates(user, controversy_profile, topic_category, registry) ==
    LET topic_communities == TopicCommunities(topic_category)
        identity == IdentityRule(user, MappingGet(topic_communities, "identity", <<>>), registry, 1)
    IN  [religious |-> ReligiousRule(user, controversy_profile, topic_communities),
         political |-> PoliticalRule(user, controversy_profile),
         identity |-> identity.candidates,
         professional |-> ProfessionalRule(user, topic_communities, registry),
         rationale_parts |-> identity.rationale_parts]

\* the rules in a different order: the professional one first
CandidatesProfessionalFirst(by_rule) ==
    by_rule.professional \o by_rule.religious \o by_rule.political \o by_rule.identity

\* candidates, in the order the rules ran
Candidates(by_rule) ==
    by_rule.religious \o by_rule.political \o by_rule.identity \o by_rule.professional

\* the loop of lines 231-236 without its test of seen
RECURSIVE SelectTopUnseen(_, _, _, _, _, _)
SelectTopUnseen(candidates, additional, rationale_parts, seen, max_additional, registry) ==
    IF candidates = <<>> THEN [additional |-> additional, rationale_parts |-> rationale_parts]
    ELSE LET candidate == Head(candidates).community IN
         IF Len(additional) < max_additional
         THEN SelectTopUnseen(Tail(candidates), Append(additional, candidate), rationale_parts, seen, max_additional, registry)
         ELSE SelectTopUnseen(Tail(candidates), additional, rationale_parts, seen, max_additional, registry)

\* lines 231-236: the loop over candidates
RECURSIVE SelectTop(_, _, _, _, _, _)
SelectTop(candidates, additional, rationale_parts, seen, max_additional, registry) ==
    IF candidates = <<>> THEN [additional |-> additional, rationale_parts |-> rationale_parts]
    ELSE LET candidate == Head(candidates).community
             reason == Head(candidates).reason
         IN  IF candidate \notin seen /\ Len(additional) < max_additional
             THEN SelectTop(Tail(candidates), Append(additional, candidate),
                            Append(rationale_parts, "Added " \o get_community_name(registry, candidate) \o ": " \o reason),
                            seen \cup {candidate}, max_additional, registry)
             ELSE SelectTop(Tail(candidates), additional, rationale_parts, seen, max_additional, registry)

LowControversyRationale == "Low controversy topic; standard response provided."

\* select_communities without the early return of lines 160-166
SelectAlways(user, controversy_profile, topic_category, max_additional, registry) ==
    LET by_rule == RuleCandidates(user, controversy_profile, topic_category, registry)
        selected == SelectTop(Candidates(by_rule), <<>>, by_rule.rationale_parts, Elements(get_communities(user)), max_additional, registry)
    IN  SelectedCommunities(user.primary_community, selected.additional,
            "Topic has " \o Join(get_controversy_dimensions(controversy_profile), ", ") \o " controversy. " \o Join(selected.rationale_parts, " "))

select_communities(user, controversy_profile, topic_category, max_additional, registry) ==
    LET baseline == user.primary_community IN
    IF ~should_surface_perspectives(controversy_profile)
    THEN SelectedCommunities(baseline, <<>>, LowControversyRationale)
    ELSE LET active_dimensions == get_controversy_dimensions(controversy_profile)
             by_rule == RuleCandidates(user, controversy_profile, topic_category, registry)
             selected == SelectTop(Candidates(by_rule), <<>>, by_rule.rationale_parts, Elements(get_communities(user)), max_additional, registry)
             rationale == "Topic has " \o Join(active_dimensions, ", ") \o " controversy. " \o Join(selected.rationale_parts, " ")
         IN  SelectedCommunities(baseline, selected.additional, rationale)

-----------------------------------------------------------------------------
(* Spec: callers of the cache *)

CacheTriples == {Triple("c", "t", " A  b"), Triple("c", "t", "b")}
\* each writer stores a text of its own, so a row's text names its writer
CacheText == [p \in {"p1", "p2"} |-> IF p = "p1" THEN "x" ELSE "y"]
\* ttl_days: an entry that expires as it is stored, and one that lives a day
CacheTtlDays == {0, 1}
CacheKeys == {KeyOf(t) : t \in CacheTriples}

\* the inputs of the request handlers in SpecApp
AppCommunities == {"a"}
AppComposites == {<<>>, <<"a", "b">>}
AppTopics == {"", "t"}
AppQuestions == {"q"}
AppKeys ==
    {_generate_cache_key(c, t, q) :
        c \in {PerspectiveCacheKey(x, y) : x \in AppCommunities, y \in AppComposites}
              \cup {CommunalCacheKey(x, l) : x \in AppCommunities, l \in BOOLEAN},
        t \in AppTopics, q \in AppQuestions}

AllKeys == CacheKeys \cup AppKeys

\* no query is being classified
DetectParked ==
    /\ dquery = NoQuery
    /\ dresult = NoResult
    /\ topic_profiles = DeclaredProfiles
    /\ FunParked

KeyParked ==
    /\ triple1 = Triple("", "", "")
    /\ triple2 = Triple("", "", "")
    /\ key1 = NoKey
    /\ key2 = NoKey
    /\ DetectParked

CacheInit ==
    /\ table = {}
    /\ stores = 0
    /\ clock = 0
    /\ pc = [p \in Procs |-> "idle"]
    /\ op = [p \in Procs |-> "none"]
    /\ arg = [p \in Procs |-> NoArg]
    /\ now = [p \in Procs |-> 0]
    /\ row = [p \in Procs |-> NoRow]
    /\ ret = [p \in Procs |-> None]
    /\ lastStore = [k \in AllKeys |-> NoStore]
    /\ expect = [p \in Procs |-> NoStore]
    /\ replaced = [p \in Procs |-> {}]
    /\ app = [p \in Procs |-> NoRequest]

Init == KeyParked /\ CacheInit

\* The two callers: a request handler, which looks entries up and stores
\* them, and a second writer, which also runs the operator's sweep.
Readers == {"p1"}
Writers == {"p1", "p2"}
Sweepers == {"p2"}

CallGet == \E p \in Readers, t \in CacheTriples :
    /\ GetSelect(p, t.community, t.topic_category, t.query)
    /\ UNCHANGED appVars

CallStore == \E p \in Writers, t \in CacheTriples, ttl \in CacheTtlDays :
    /\ StoreNow(p, t.community, t.topic_category, t.query, CacheText[p], ttl)
    /\ UNCHANGED appVars

CallSweep == \E p \in Sweepers : SweepNow(p)

Step == \E p \in Procs :
    GetCheck(p) \/ GetUpdate(p) \/ StoreExec(p) \/ SweepExec(p) \/ Return(p)

Next == CallGet \/ CallStore \/ CallSweep \/ Step \/ Tick

Spec == Init /\ [][Next]_vars

-----------------------------------------------------------------------------
(* Claims about the cache *)

GetDone(p) == pc[p] = "done" /\ op[p] = "get"
StoreDone(p) == pc[p] = "done" /\ op[p] = "store"
SweepDone(p) == pc[p] = "done" /\ op[p] = "sweep"

C4_OneRowPerKeyFromOneWriter ==
    /\ \A r1, r2 \in table : r1.cache_key = r2.cache_key => r1 = r2
    /\ \A p \in Procs :
        StoreDone(p) =>
            \E r \in table :
                /\ r.cache_key = ArgKey(arg[p])
                /\ r.perspective_text = arg[p].perspective_text
                /\ r.created_at = IsoFormat(now[p])
                /\ r.expires_at = IsoFormat(PlusDays(now[p], arg[p].ttl_days))

\* two writers raced: the store that executed last had read the clock before
\* the writer of the row it replaced, which held another text
C4_Witness ==
    \E p \in Procs :
        /\ StoreDone(p)
        /\ \E old \in replaced[p] :
            /\ FromIsoFormat(old.created_at) > now[p]
            /\ old.perspective_text # arg[p].perspective_text
        /\ Cardinality(RowsOf(ArgKey(arg[p]))) = 1

\* C5: a get returns a text only if the expires_at it fetched is strictly
\* later than the time it read, and returns None for a fetched row whose
\* expires_at is not.
C5_NoExpiredText ==
    \A p \in Procs :
        GetDone(p) =>
            /\ ret[p] # None =>
                /\ row[p] # NoRow
                /\ FromIsoFormat(row[p].expires_at) > now[p]
                /\ ret[p] = Str(row[p].perspective_text)
            /\ (row[p] # NoRow /\ FromIsoFormat(row[p].expires_at) <= now[p])
                    => ret[p] = None

\* a get fetched a row that expires at the very instant it read, and
\* returned None
C5_Witness ==
    \E p \in Procs :
        /\ GetDone(p)
        /\ row[p] # NoRow
        /\ FromIsoFormat(row[p].expires_at) = now[p]
        /\ ret[p] = None

SweepStep(p) == pc[p] = "sweep_exec" /\ pc'[p] = "done"
StoreStep(p) == pc[p] = "store_exec" /\ pc'[p] = "done"

\* C6: a sweep removes exactly the rows whose expires_at is earlier than the
\* time it read, returns how many it removed and leaves the other rows as
\* they were.
C6_SweepRemovesExactlyExpired ==
    [][\A p \in Procs :
        SweepStep(p) =>
            /\ table' = {r \in table : ~(FromIsoFormat(r.expires_at) < now[p])}
            /\ ret'[p] = IntVal(Cardinality(table) - Cardinality(table'))]_vars

\* a sweep removed a row and kept one that expires at the instant it read
C6_Witness ==
    \E p \in Procs :
        /\ SweepDone(p)
        /\ ret[p].val >= 1
        /\ \E r \in table : FromIsoFormat(r.expires_at) = now[p]

\* C7: a row leaves the table only in the step of a sweep: neither a get
\* (also of an expired entry) nor a store removes one.
C7_OnlySweepRemoves ==
    [][(\E r \in table : \A r2 \in table' : r2.id # r.id)
            => \E p \in Procs : SweepStep(p)]_vars

\* a get found its entry expired, returned None and the row is still there
C7_Witness ==
    \E p \in Procs :
        /\ GetDone(p)
        /\ ret[p] = None
        /\ row[p] # NoRow
        /\ \E r \in table : r.id = row[p].id

\* C8: a store leaves one row for its fingerprint, with its text, its
\* created_at and expires_at = created_at + ttl_days; the row keeps the
\* hit_count (and id) of the row that was there, and has hit_count 0 when
\* none was; every other row is untouched.
C8_StoreReplacesFieldsKeepsHits ==
    [][\A p \in Procs :
        StoreStep(p) =>
            LET k == ArgKey(arg[p])
                old == {r \in table : r.cache_key = k}
                new == {r \in table' : r.cache_key = k}
            IN  /\ Cardinality(new) = 1
                /\ \A r \in new :
                    /\ r.perspective_text = arg[p].perspective_text
                    /\ FromIsoFormat(r.created_at) = now[p]
                    /\ FromIsoFormat(r.expires_at)
                            = FromIsoFormat(r.created_at) + arg[p].ttl_days * TicksPerDay
                    /\ old = {} => r.hit_count = 0
                    /\ \A o \in old : r.hit_count = o.hit_count /\ r.id = o.id
                /\ {r \in table' : r.cache_key # k} = {r \in table : r.cache_key # k}]_vars

\* a store replaced a row that had been hit, with another text and a later
\* expiry, and the hit is still counted
C8_Witness ==
    \E p \in Procs :
        /\ StoreDone(p)
        /\ \E old \in replaced[p], r \in table :
            /\ r.cache_key = old.cache_key
            /\ old.hit_count >= 1
            /\ r.hit_count = old.hit_count
            /\ r.perspective_text # old.perspective_text
            /\ r.expires_at # old.expires_at

-----------------------------------------------------------------------------
(* SpecApp: two request handlers over one cache *)

\* The first caller, with a configured client, asks for the cached
\* perspective of one community on one topic; the second asks for anything,
\* communal perspectives included.
CommunalCallers == {"p2"}
TopicsOf(p) == IF p = "p1" THEN {"t"} ELSE AppTopics
UseCacheOf(p) == IF p = "p1" THEN {TRUE} ELSE BOOLEAN
CompositesOf(p) == IF p = "p1" THEN {<<>>} ELSE AppComposites
ClientsOf(p) == IF p = "p1" THEN {OpenAIClient} ELSE Clients

CallPerspective ==
    \E p \in Procs :
        \E client \in ClientsOf(p), community \in AppCommunities,
           topic_category \in TopicsOf(p), question \in AppQuestions,
           use_cache \in UseCacheOf(p), composite_communities \in CompositesOf(p) :
            generate_perspective(p, client, community, topic_category, question,
                                 use_cache, composite_communities)

CallCommunal ==
    \E p \in CommunalCallers, client \in Clients, community \in AppCommunities,
       topic_category \in AppTopics, question \in AppQuestions,
       is_lead \in BOOLEAN, use_cache \in BOOLEAN :
        generate_communal_perspective(p, client, community, topic_category,
                                      question, is_lead, use_cache)

AppStep == \E p \in Procs :
    AfterLookup(p) \/ Generate(p) \/ AfterStore(p) \/ Finish(p)

CacheStep == \E p \in Procs :
    \/ GetCheck(p)
    \/ GetUpdate(p)
    \/ StoreExec(p)

NextApp == CallPerspective \/ CallCommunal \/ AppStep \/ CacheStep

SpecApp == Init /\ [][NextApp]_vars

RequestDone(p) == app[p].pc = "done"
SameRequest(p, q) ==
    /\ app[p].cache_key = app[q].cache_key
    /\ app[p].topic_category = app[q].topic_category
    /\ app[p].question = app[q].question
Overlapped(p, q) == q \in app[p].concurrent /\ p \in app[q].concurrent

\* C9: two requests for the same (community, topic, query) that ran
\* concurrently, with the cache in use and a text generated, return the same
\* text, and that text is the one the cache holds for the triple.
C9_ConcurrentRequestsAgree ==
    \A p, q \in Procs :
        (/\ p # q
         /\ RequestDone(p) /\ RequestDone(q)
         /\ SameRequest(p, q) /\ Overlapped(p, q)
         /\ app[p].use_cache /\ app[q].use_cache /\ app[p].topic_category # ""
         /\ ~StartsWith(app[p].result.val, "[") /\ ~StartsWith(app[q].result.val, "[")
         /\ app[p].result.val # "" /\ app[q].result.val # "")
        => /\ app[p].result = app[q].result
           /\ \E r \in table :
                /\ r.cache_key = _generate_cache_key(app[p].cache_key,
                                    app[p].topic_category, app[p].question)
                /\ r.perspective_text = app[p].result.val

\* C25: a request whose lookup began after a text had been generated and
\* stored for its (community, topic, query), the entry not yet expired,
\* returns that text when the lookup is over, without generating; a request
\* whose lookup began with nothing stored goes on to generate.
C25_StoredTextIsReused ==
    [][\A p \in Procs :
        (app[p].pc = "lookup" /\ app'[p].pc # "lookup")
        => IF expect[p].stored
           THEN app'[p].pc = "done" /\ app'[p].result = Str(expect[p].text)
           ELSE app'[p].pc = "generate"]_vars

\* the texts generate_completion returns in place of a completion
FailureTexts == {NotConfigured, ApiError}

\* C29: no cache row holds, and no store under way carries, a placeholder or
\* error text of generate_completion: such a text is returned to the caller
\* of the request and never stored.
C29_FailuresNeverStored ==
    /\ \A r \in table : r.perspective_text \notin FailureTexts
    /\ \A p \in Procs : op[p] = "store" => arg[p].perspective_text \notin FailureTexts

\* a caching request was answered with the error text of a failed backend
\* call, and another with the placeholder of a missing client
C29_Witness ==
    /\ RequestDone("p1") /\ app["p1"].use_cache /\ app["p1"].topic_category # ""
    /\ app["p1"].result = Str(ApiError)
    /\ RequestDone("p2") /\ app["p2"].use_cache /\ app["p2"].topic_category # ""
    /\ app["p2"].result = Str(NotConfigured)

\* config.py line 31: values the environment may give CACHE_TTL_DAYS, the
\* default among them
CACHE_TTL_DAYS == {7, DefaultTtlDays}

\* C30: whatever value of CACHE_TTL_DAYS is configured, every cache row the
\* request flow stored expires that many days after it was created.
C30_ExpiryFollowsConfiguredTtl ==
    \A cache_ttl_days \in CACHE_TTL_DAYS : \A r \in table :
        r.expires_at = IsoFormat(PlusDays(FromIsoFormat(r.created_at), cache_ttl_days))

\* the rows of the request flow expire 30 days after they were created
ExpiryFollowsDefaultTtl ==
    \A r \in table :
        r.expires_at = IsoFormat(PlusDays(FromIsoFormat(r.created_at), DefaultTtlDays))

-----------------------------------------------------------------------------
(* SpecNorm: one triple and the variants of its query *)

NormChars == {"a", "A", " ", "\t", CapSigma, SmallSigma}
NormQueries == StringsUpTo(NormChars, MaxQLen)

\* the other-case form of a letter, for the letters of NormChars
HasOtherCase(ch) == ch \in {"a", "A", CapSigma, SmallSigma}
OtherCase(ch) ==
    CASE ch = "a" -> "A"
      [] ch = "A" -> "a"
      [] ch = CapSigma -> SmallSigma
      [] ch = SmallSigma -> CapSigma
      [] OTHER -> ch

ReplaceAt(s, i, ch) == SubSeq(s, 1, i - 1) \o ch \o SubSeq(s, i + 1, Len(s))
InsertAt(s, i, ch) == SubSeq(s, 1, i - 1) \o ch \o SubSeq(s, i, Len(s))
RemoveAt(s, i) == SubSeq(s, 1, i - 1) \o SubSeq(s, i + 1, Len(s))

InitNorm ==
    /\ triple1 \in {Triple("c", "t", q) : q \in NormQueries}
    /\ triple2 = triple1
    /\ key1 = NoKey
    /\ key2 = NoKey
    /\ DetectParked
    /\ CacheInit

\* the two keys are generated
GenerateKeys ==
    /\ key1 = NoKey
    /\ key1' = KeyOf(triple1)
    /\ key2' = KeyOf(triple2)
    /\ UNCHANGED <<triple1, triple2, detectVars, funVars, cacheVars, procVars, histVars, appVars>>

SetVariant(q) ==
    /\ key1 # NoKey
    /\ triple2' = [triple2 EXCEPT !.query = q]
    /\ key2' = KeyOf(triple2')
    /\ UNCHANGED <<triple1, key1, detectVars, funVars, cacheVars, procVars, histVars, appVars>>

\* the second query changes the case of one letter
FlipCase ==
    \E i \in 1..Len(triple2.query) :
        /\ HasOtherCase(Char(triple2.query, i))
        /\ SetVariant(ReplaceAt(triple2.query, i, OtherCase(Char(triple2.query, i))))

\* the second query gains a leading or trailing whitespace character
Pad ==
    \E w \in {" ", "\t"} :
        /\ Len(triple2.query) < MaxQLen
        /\ \/ SetVariant(w \o triple2.query)
           \/ SetVariant(triple2.query \o w)

\* the second query loses a leading or trailing whitespace character
Trim ==
    /\ triple2.query # ""
    /\ \/ /\ Char(triple2.query, 1) \in Whitespace
          /\ SetVariant(RemoveAt(triple2.query, 1))
       \/ /\ Char(triple2.query, Len(triple2.query)) \in Whitespace
          /\ SetVariant(RemoveAt(triple2.query, Len(triple2.query)))

\* an interior whitespace run of the second query grows by one character
StretchRun ==
    \E i \in 1..Len(triple2.query), w \in {" ", "\t"} :
        /\ Len(triple2.query) < MaxQLen
        /\ Char(triple2.query, i) \in Whitespace
        /\ SetVariant(InsertAt(triple2.query, i, w))

\* an interior whitespace run of the second query shrinks by one character
ShrinkRun ==
    \E i \in 1..(Len(triple2.query) - 1) :
        /\ Char(triple2.query, i) \in Whitespace
        /\ Char(triple2.query, i + 1) \in Whitespace
        /\ SetVariant(RemoveAt(triple2.query, i))

NextNorm == GenerateKeys \/ FlipCase \/ Pad \/ Trim \/ StretchRun \/ ShrinkRun

SpecNorm == InitNorm /\ [][NextNorm]_vars

\* C2: two queries that differ only in letter case, in leading or trailing
\* whitespace or in the length of interior whitespace runs produce the same
\* cache key (triple2's query is such a variant of triple1's in every state
\* of SpecNorm).
C2_VariantsShareKey == key1 # NoKey => key2 = key1

\* the same, for queries without a Greek sigma
C2_AsciiVariantsShareKey ==
    (key1 # NoKey /\ \A i \in 1..Len(triple1.query) :
                        Char(triple1.query, i) \notin {CapSigma, SmallSigma})
        => key2 = key1

-----------------------------------------------------------------------------
(* SpecDetect: queries put to the rule-based classifier *)

\* the words queries are made of: words of factual patterns, words of topic
\* patterns, and words of neither
DetectWords == <<"vegan", "recipe", "recipes", "Capital", "of", "how", "to",
                 "cook", "climate", "UBI">>

\* the queries of at most n words, the words a single space apart
RECURSIVE QueriesUpTo(_)
QueriesUpTo(n) ==
    IF n = 1 THEN {DetectWords[i] : i \in DOMAIN DetectWords}
    ELSE LET shorter == QueriesUpTo(n - 1)
         IN  shorter \cup {q \o " " \o DetectWords[i] : q \in shorter, i \in DOMAIN DetectWords}

DetectQueries == QueriesUpTo(MaxWords)

InitDetect ==
    /\ triple1 = Triple("", "", "")
    /\ triple2 = Triple("", "", "")
    /\ key1 = NoKey
    /\ key2 = NoKey
    /\ DetectParked
    /\ CacheInit

PutQuery == \E query \in DetectQueries : Ask(query)

NextDetect == PutQuery \/ Classify \/ Answered

SpecDetect == InitDetect /\ [][NextDetect]_vars

\* the query matches some factual pattern / some pattern of a topic group
MatchesFactual(query) ==
    \E i \in DOMAIN FACTUAL_PATTERNS : Search(FACTUAL_PATTERNS[i], Lower(query))
MatchesTopic(query) ==
    \E t \in DOMAIN TOPIC_PATTERNS : \E i \in DOMAIN TOPIC_PATTERNS[t].patterns :
        Search(TOPIC_PATTERNS[t].patterns[i], Lower(query))

\* C10: for every query that matches a factual pattern, detect_controversy
\* returns the profile (NONE, NONE, NONE) and the topic category None, also
\* when the query matches patterns of topic groups.
C10_FactualWins ==
    (dresult # NoResult /\ MatchesFactual(dquery.val))
        => /\ dresult.profile.religious = NONE
           /\ dresult.profile.political = NONE
           /\ dresult.profile.regional = NONE
           /\ dresult.topic_category = None

\* a query that matches a factual pattern and a topic pattern was classified
C10_Witness ==
    /\ dresult # NoResult
    /\ MatchesFactual(dquery.val)
    /\ MatchesTopic(dquery.val)

\* the topic groups with a pattern the query matches
MatchingTopics(query) ==
    {t \in DOMAIN TOPIC_PATTERNS :
        \E i \in DOMAIN TOPIC_PATTERNS[t].patterns :
            Search(TOPIC_PATTERNS[t].patterns[i], Lower(query))}

\* C11: for every query that matches no factual pattern, detect_controversy
\* returns the name and profile of the earliest-declared topic group with a
\* matching pattern, and (LOW, LOW, LOW) with topic category None when no
\* group matches.
C11_EarliestTopicWins ==
    (dresult # NoResult /\ ~MatchesFactual(dquery.val))
        => LET hits == MatchingTopics(dquery.val)
           IN  IF hits = {}
               THEN /\ dresult.profile = ControversyProfile(LOW, LOW, LOW)
                    /\ dresult.topic_category = None
               ELSE \E t \in hits :
                        /\ \A u \in hits : t <= u
                        /\ dresult.profile = TOPIC_PATTERNS[t].profile
                        /\ dresult.topic_category = Str(TOPIC_PATTERNS[t].topic_category)

\* a query that matches no factual pattern and the patterns of two topic
\* groups was classified
C11_Witness ==
    /\ dresult # NoResult
    /\ ~MatchesFactual(dquery.val)
    /\ Cardinality(MatchingTopics(dquery.val)) >= 2

-----------------------------------------------------------------------------
(* SpecShared: callers that change the profiles they were returned *)

\* queries of three topic groups, a factual one and one of no group
SharedQueries == {"vegan", "climate", "UBI", "how to cook", "hello"}

PutSharedQuery == \E query \in SharedQueries : Ask(query)

NextShared == PutSharedQuery \/ Classify \/ ChangeReturned \/ Answered

SpecShared == Init /\ [][NextShared]_vars

\* C24: whatever callers did to the profiles returned to them, every
\* classification returns for its query what the classifier returns with the
\* topic table as declared: no returned profile shares state with the table
\* or with the profile of another call.
C24_ReturnedProfilesAreFresh ==
    [][Classify => dresult' = detect_controversy(dquery.val)]_vars

-----------------------------------------------------------------------------
(* SpecTopics: queries on every topic group of the classifier *)

\* one phrase for each group of TOPIC_PATTERNS, in the order of the table
TopicPhrases == <<"abortion", "climate", "secularism", "cow protection",
                  "vegan", "UBI", "transgender", "gun rights", "land rights",
                  "refugee", "autism", "niqab", "sharia">>
\* a factual phrase, a factual phrase on a topic, and a phrase of no group
OtherPhrases == {"capital of", "how to cook vegan", "hello"}
QueryOpenings == {"", "on ", "why ", "the "}
TopicQueries ==
    {opening \o phrase :
        opening \in QueryOpenings,
        phrase \in {TopicPhrases[t] : t \in DOMAIN TopicPhrases} \cup OtherPhrases}

PutTopicQuery == \E query \in TopicQueries : Ask(query)

NextTopics == PutTopicQuery \/ Classify \/ Answered

SpecTopics == Init /\ [][NextTopics]_vars

\* C26: detect_controversy returns a topic category exactly when the profile
\* it returns says that perspectives are to be surfaced: every profile of
\* TOPIC_PATTERNS has a MEDIUM or HIGH dimension, and the factual profile
\* and the default profile do not surface.
C26_CategoryIffSurfaced ==
    /\ \A t \in DOMAIN TOPIC_PATTERNS :
            should_surface_perspectives(TOPIC_PATTERNS[t].profile)
    /\ dresult # NoResult =>
            (dresult.topic_category # None
                <=> should_surface_perspectives(dresult.profile))

\* a query on the group whose profile has one MEDIUM dimension and no HIGH
\* one was classified
C26_Witness ==
    /\ dresult # NoResult
    /\ dresult.topic_category = Str("disability_rights")
    /\ dresult.profile = ControversyProfile(LOW, LOW, MEDIUM)

\* every group of TOPIC_PATTERNS is returned for its phrase
TopicPhrasesHitTheirGroups ==
    \A t \in DOMAIN TopicPhrases :
        detect_controversy(TopicPhrases[t]).topic_category
            = Str(TOPIC_PATTERNS[t].topic_category)

\* C27: every topic category detect_controversy returns has an entry in
\* TOPIC_COMMUNITY_MAPPINGS.
C27_ReturnedTopicIsMapped ==
    (dresult # NoResult /\ dresult.topic_category # None)
        => dresult.topic_category.val \in DOMAIN TOPIC_COMMUNITY_MAPPINGS

-----------------------------------------------------------------------------
(* SpecModes: the cache entries of two generation requests *)

\* community identifiers, some with the separator or a prefix of the cache
\* strings in them
ModeCommunities == {"a", "b", "a_b", "lead_a", "communal_a"}
ModeComposites == {<<x, y>> : x, y \in {"a", "b", "a_b"}}

\* a request by its mode and the communities it names
GenerationRequests ==
    {[mode |-> mode, communities |-> <<c>>] :
        mode \in {"external", "communal", "communal_lead"}, c \in ModeCommunities}
    \cup {[mode |-> "composite", communities |-> cs] : cs \in ModeComposites}

\* the community string the handler of the request builds: app.py lines
\* 79-81 and 123-124
CacheCommunity(request) ==
    CASE request.mode = "external" ->
            PerspectiveCacheKey(request.communities[1], <<>>)
      [] request.mode = "composite" ->
            PerspectiveCacheKey(request.communities[1], request.communities)
      [] request.mode = "communal" ->
            CommunalCacheKey(request.communities[1], FALSE)
      [] request.mode = "communal_lead" ->
            CommunalCacheKey(request.communities[1], TRUE)

\* two requests for one topic and one query
CallModes ==
    /\ FunParked
    /\ \E first \in GenerationRequests, second \in GenerationRequests :
           FunCall([fn |-> "cache_entry", first |-> first, second |-> second,
                    topic_category |-> "t", question |-> "q"])

\* the cache keys of their lookups, lines 86 and 129
ReturnModes ==
    /\ Calling("cache_entry")
    /\ fresult' = [first |-> _generate_cache_key(CacheCommunity(fcall.first),
                                fcall.topic_category, fcall.question),
                   second |-> _generate_cache_key(CacheCommunity(fcall.second),
                                fcall.topic_category, fcall.question)]
    /\ UNCHANGED <<keysVars, detectVars, fcall, systemVars>>

NextModes == CallModes \/ ReturnModes \/ FunReturn

SpecModes == Init /\ [][NextModes]_vars

\* C28: two generation requests for the same topic and query have the same
\* cache key only if they are of the same mode (external, composite,
\* communal, communal lead) and name the same communities.
C28_ModesNeverShareEntry ==
    (Returned("cache_entry") /\ fresult.first = fresult.second)
        => fcall.first = fcall.second

-----------------------------------------------------------------------------
(* SpecSurface: the methods of every profile *)

PutProfile ==
    \E religious \in ControversyLevels, political \in ControversyLevels,
       regional \in ControversyLevels :
        FunCall([fn |-> "ControversyProfile",
                 self |-> ControversyProfile(religious, political, regional)])

NextSurface == PutProfile \/ EvalProfile \/ FunReturn

SpecSurface == Init /\ [][NextSurface]_vars

\* the order NONE < LOW < MEDIUM < HIGH
LevelRank(level) ==
    CASE level = NONE -> 0 [] level = LOW -> 1 [] level = MEDIUM -> 2 [] level = HIGH -> 3

\* C12: for every profile, max_controversy_level is the greatest of the
\* three levels in the order NONE < LOW < MEDIUM < HIGH, and
\* should_surface_perspectives is true exactly when it is MEDIUM or HIGH.
C12_SurfaceIffMaxAtLeastMedium ==
    Returned("ControversyProfile") =>
        LET self == fcall.self
            ranks == {LevelRank(self.religious), LevelRank(self.political),
                      LevelRank(self.regional)}
        IN  /\ LevelRank(fresult.max_controversy_level) \in ranks
            /\ \A r \in ranks : r <= LevelRank(fresult.max_controversy_level)
            /\ fresult.should_surface_perspectives
                    <=> fresult.max_controversy_level \in {MEDIUM, HIGH}

\* a profile whose greatest level is MEDIUM was evaluated and surfaces
C12_Witness ==
    /\ Returned("ControversyProfile")
    /\ fresult.max_controversy_level = MEDIUM
    /\ fresult.should_surface_perspectives

-----------------------------------------------------------------------------
(* SpecKey: two triples and their keys *)

KeyCommunities == {"c", "c|t"}
KeyTopics == {"t", "t|a"}
KeyChars == {"a", "A", "|"}
KeyTriples ==
    {Triple(c, t, q) : c \in KeyCommunities, t \in KeyTopics,
                       q \in StringsUpTo(KeyChars, MaxKeyQLen)}

InitKey ==
    /\ triple1 \in KeyTriples
    /\ triple2 \in KeyTriples
    /\ key1 = NoKey
    /\ key2 = NoKey
    /\ DetectParked
    /\ CacheInit

NextKey == GenerateKeys

SpecKey == InitKey /\ [][NextKey]_vars

\* the tuple the fingerprint is meant to be a function of
NormalizedTriple(t) == <<t.community, t.topic_category, _normalize_query(t.query)>>

\* C3: two triples that differ in community, topic_category or normalized
\* query never map to the same cache key.
C3_DistinctTriplesDistinctKeys ==
    (key1 # NoKey /\ NormalizedTriple(triple1) # NormalizedTriple(triple2))
        => key1 # key2

-----------------------------------------------------------------------------
(* SpecLlm: detect_controversy_llm over the backend's possible replies *)

\* a reply that carries every field the prompt asks for
FullReply == "{\"is_controversial\": true, \"religious_level\": \"high\", \"political_level\": \"Medium\", \"regional_level\": \"none\", \"topic_category\": \"diet\", \"divergent_communities\": [\"Jain\", \"secular_progressive\"], \"intra_community_contrast\": null, \"reasoning\": \"r\"}"

\* message contents the backend may answer with; shape tells whether the text
\* is a JSON object, complete whether the object has every required field
LlmReplies ==
    << [text |-> FullReply, shape |-> "object", complete |-> TRUE],
       [text |-> "  " \o FullReply \o "\n", shape |-> "object", complete |-> TRUE],
       [text |-> Fence \o "json\n" \o FullReply \o "\n" \o Fence, shape |-> "object", complete |-> TRUE],
       [text |-> Fence \o "\n" \o FullReply \o "\n" \o Fence \o "\nHope this helps", shape |-> "object", complete |-> TRUE],
       [text |-> "{\"religious_level\": \"high\"}", shape |-> "object", complete |-> FALSE],
       [text |-> "{\"political_level\": \"extreme\", \"topic_category\": \"diet\"}", shape |-> "object", complete |-> FALSE],
       [text |-> "{}", shape |-> "object", complete |-> FALSE],
       [text |-> "{\"religious_level\": 3}", shape |-> "object", complete |-> FALSE],
       [text |-> "{\"regional_level\": null, \"reasoning\": \"r\"}", shape |-> "object", complete |-> FALSE],
       [text |-> "{\"religious_level\": \"high\"", shape |-> "other", complete |-> FALSE],
       [text |-> "Here is the analysis: " \o FullReply, shape |-> "other", complete |-> FALSE],
       [text |-> "I cannot classify this.", shape |-> "other", complete |-> FALSE],
       [text |-> "[\"high\", \"low\", \"low\"]", shape |-> "other", complete |-> FALSE],
       [text |-> "null", shape |-> "other", complete |-> FALSE],
       [text |-> "\"high\"", shape |-> "other", complete |-> FALSE],
       [text |-> Fence, shape |-> "other", complete |-> FALSE],
       [text |-> "", shape |-> "other", complete |-> FALSE] >>

\* what the chat-completions call may do: raise, answer without content, or
\* answer with one of the replies
LlmOutcomes ==
    {BackendRaises, BackendAnswers(None)} \cup {BackendAnswers(Str(LlmReplies[i].text)) : i \in DOMAIN LlmReplies}

\* the queries put: a factual one, two of topic groups, one of none
LlmQueries == {"how to cook", "vegan", "UBI", "hello"}

\* the user_communities argument: omitted, empty, or a user's communities
LlmUsers == {None, List(<<>>), List(<<"Hindu", "progressive">>), List(<<"Hindu", "">>)}

\* the backend has not been called in this call
NotCalled == [kind |-> "not called", content |-> None]

CallDetectLlm ==
    /\ FunParked
    /\ \E query \in LlmQueries, llm_client \in Clients, user_communities \in LlmUsers :
           FunCall([fn |-> "detect_controversy_llm", query |-> query, llm_client |-> llm_client,
                    user_communities |-> user_communities, backend |-> NotCalled])

\* llm_client.chat.completions.create(...) ends one way or another
BackendReplies ==
    /\ Calling("detect_controversy_llm")
    /\ fcall.llm_client # None
    /\ fcall.backend = NotCalled
    /\ \E outcome \in LlmOutcomes : fcall' = [fcall EXCEPT !.backend = outcome]
    /\ UNCHANGED <<keysVars, detectVars, fresult, systemVars>>

ReturnDetectLlm ==
    /\ Calling("detect_controversy_llm")
    /\ fcall.llm_client = None \/ fcall.backend # NotCalled
    /\ fresult' = detect_controversy_llm(fcall.query, fcall.llm_client, fcall.user_communities, fcall.backend)
    /\ UNCHANGED <<keysVars, detectVars, fcall, systemVars>>

NextLlm == CallDetectLlm \/ BackendReplies \/ ReturnDetectLlm \/ FunReturn

SpecLlm == Init /\ [][NextLlm]_vars

\* what the backend's answer is, as the table of replies tells it
ReplyOf(backend) == CHOOSE i \in DOMAIN LlmReplies : LlmReplies[i].text = backend.content.val
GaveJsonObject(backend) ==
    /\ backend.kind = "answers"
    /\ backend.content # None
    /\ LlmReplies[ReplyOf(backend)].shape = "object"
GaveCompleteObject(backend) ==
    GaveJsonObject(backend) /\ LlmReplies[ReplyOf(backend)].complete

\* C13: detect_controversy_llm never raises; without a client, when the
\* generation call raises, and when the reply is not parseable as a JSON
\* object, it returns exactly detect_controversy(query), whatever
\* user_communities is.
C13_LlmFallsBackNeverRaises ==
    Returned("detect_controversy_llm") =>
        /\ ~fresult.raised
        /\ (fcall.llm_client = None \/ ~GaveJsonObject(fcall.backend)) =>
               fresult.value = detect_controversy(fcall.query)

\* a reply that is no JSON object was answered to a query of a topic group
C13_Witness ==
    /\ Returned("detect_controversy_llm")
    /\ fcall.llm_client # None
    /\ fcall.backend.kind = "answers"
    /\ ~GaveJsonObject(fcall.backend)
    /\ fcall.user_communities # None
    /\ fresult.value.topic_category # None

\* C14: a reply that is well-formed JSON but lacks a required field makes
\* detect_controversy_llm fall back to detect_controversy(query).
C14_MissingFieldFallsBack ==
    ( /\ Returned("detect_controversy_llm")
      /\ fcall.llm_client # None
      /\ GaveJsonObject(fcall.backend)
      /\ ~GaveCompleteObject(fcall.backend) ) =>
        fresult = Returns(detect_controversy(fcall.query))

-----------------------------------------------------------------------------
(* SpecSelect: select_communities over users, profiles, topics and caps *)

\* max_additional of a call that passes none
DefaultMaxAdditional == 2

\* the largest max_additional put
MaxAdditional == 3

\* the identifiers the per-topic table lists under kind
ListedAs(kind) ==
    UNION {Elements(MappingGet(TOPIC_COMMUNITY_MAPPINGS[t], kind, <<>>)) : t \in DOMAIN TOPIC_COMMUNITY_MAPPINGS}

\* a display name: the identifier with its underscores read as spaces
DisplayName(community_id) == Join(SplitOn(community_id, "_"), " ")

\* a registry that knows every listed community at the tier of its list
FullRegistry ==
    [id \in ListedAs("religious") \cup ListedAs("political") \cup ListedAs("professional") \cup ListedAs("identity") |->
        Community(DisplayName(id),
                  IF id \in ListedAs("identity") THEN TIER_5_IDENTITY
                  ELSE IF id \in ListedAs("professional") THEN TIER_4_PROFESSIONAL
                  ELSE IF id \in ListedAs("political") THEN TIER_2_POLITICAL
                  ELSE TIER_1_RELIGIOUS)]

\* a registry that lacks most identity communities and has feminist at the
\* political tier
SparseRegistry ==
    [id \in {"women", "working_class", "gun_owner", "feminist", "economist", "progressive", "conservative"} |->
        Community(DisplayName(id),
                  IF id \in {"women", "working_class", "gun_owner"} THEN TIER_5_IDENTITY
                  ELSE IF id = "economist" THEN TIER_4_PROFESSIONAL
                  ELSE TIER_2_POLITICAL)]

Registries == {FullRegistry, SparseRegistry}

SelectPrimaries ==
    {<<"religious", "Hindu">>, <<"religious", "Catholic">>, <<"political", "progressive">>,
     <<"political", "conservative">>, <<"political", "libertarian">>, <<"political", "socialist">>,
     <<"political", "environmentalist">>, <<"secular", "atheist">>, <<"identity", "women">>,
     <<"professional", "economist">>}

SelectSecondaries ==
    {<<None, None>>, <<Str("political"), Str("conservative")>>, <<Str("political"), Str("libertarian")>>,
     <<Str("political"), None>>, <<Str("secular"), Str("atheist")>>, <<Str("identity"), Str("feminist")>>,
     <<Str("secular"), Str("secular_humanist")>>}

SelectTertiaries == {None, Str("progressive"), Str("secular_progressive")}

SelectUsers ==
    {UserProfile(p[1], p[2], s[1], s[2], t) : p \in SelectPrimaries, s \in SelectSecondaries, t \in SelectTertiaries}

SelectProfiles ==
    {ControversyProfile(religious, political, regional) :
        religious \in ControversyLevels, political \in ControversyLevels, regional \in {NONE, LOW, HIGH}}

SelectTopics ==
    {None, Str("no_such_topic"), Str("reproductive_rights"), Str("economic_policy"),
     Str("food_ethics_animal_rights"), Str("gun_rights"), Str("climate_environment")}

CallSelect ==
    /\ FunParked
    /\ \E user \in SelectUsers, controversy_profile \in SelectProfiles, topic_category \in SelectTopics :
           \E max_additional \in 0..MaxAdditional, registry \in Registries :
               FunCall([fn |-> "select_communities", user |-> user, controversy_profile |-> controversy_profile,
                        topic_category |-> topic_category, max_additional |-> max_additional, registry |-> registry])

\* the call runs; by_rule records what each rule appended to candidates
ReturnSelect ==
    /\ Calling("select_communities")
    /\ fresult' = [selected |-> select_communities(fcall.user, fcall.controversy_profile, fcall.topic_category, fcall.max_additional, fcall.registry),
                   by_rule |-> IF should_surface_perspectives(fcall.controversy_profile)
                               THEN RuleCandidates(fcall.user, fcall.controversy_profile, fcall.topic_category, fcall.registry)
                               ELSE [religious |-> <<>>, political |-> <<>>, identity |-> <<>>, professional |-> <<>>, rationale_parts |-> <<>>]]
    /\ UNCHANGED <<keysVars, detectVars, fcall, systemVars>>

NextSelect == CallSelect \/ ReturnSelect \/ FunReturn

SpecSelect == Init /\ [][NextSelect]_vars

\* no element of the list occurs in it twice
NoDuplicates(list) == \A i, j \in DOMAIN list : list[i] = list[j] => i = j

\* C15: baseline is the user's primary community, additional has at most
\* max_additional communities, none of them one of the user's own, none twice.
C15_SelectionInvariants ==
    Returned("select_communities") =>
        LET additional == fresult.selected.additional IN
        /\ fresult.selected.baseline = fcall.user.primary_community
        /\ Len(additional) <= fcall.max_additional
        /\ Elements(additional) \cap Elements(get_communities(fcall.user)) = {}
        /\ NoDuplicates(additional)

\* a surfaced call in which the cap dropped a candidate and the user held one
C15_Witness ==
    /\ Returned("select_communities")
    /\ Len(fresult.selected.additional) = fcall.max_additional
    /\ fcall.max_additional > 0
    /\ Len(Candidates(fresult.by_rule)) > fcall.max_additional
    /\ \E i \in DOMAIN Candidates(fresult.by_rule) :
           Candidates(fresult.by_rule)[i].community \in Elements(get_communities(fcall.user))

\* C16: when every level of the profile is NONE or LOW, the result is the
\* baseline alone, with no additional community and the fixed low-controversy
\* rationale, whatever the user, the topic and max_additional are.
C16_LowControversyBaselineOnly ==
    ( /\ Returned("select_communities")
      /\ fcall.controversy_profile.religious \in {NONE, LOW}
      /\ fcall.controversy_profile.political \in {NONE, LOW}
      /\ fcall.controversy_profile.regional \in {NONE, LOW} ) =>
        fresult.selected = [baseline |-> fcall.user.primary_community, additional |-> <<>>,
                            rationale |-> "Low controversy topic; standard response provided."]

\* a low-controversy call for a topic with identity and professional lists,
\* by a user who holds none of them, with room for two additions
C16_Witness ==
    /\ Returned("select_communities")
    /\ fcall.controversy_profile = ControversyProfile(LOW, NONE, LOW)
    /\ fcall.topic_category = Str("economic_policy")
    /\ fcall.user.primary_community = "Hindu"
    /\ fcall.max_additional = 2
    /\ fcall.registry = FullRegistry
    /\ fresult.selected.additional = <<>>

\* the communities of a list of candidates
CommunitiesOf(candidates) == [i \in DOMAIN candidates |-> candidates[i].community]

\* the list without the elements that occurred earlier in it
FirstOccurrences(list) ==
    SelectSeq([i \in DOMAIN list |-> IF \E j \in 1..(i - 1) : list[j] = list[i] THEN <<>> ELSE <<list[i]>>], LAMBDA e : e # <<>>)

\* the first n elements of the list, all of it when it is shorter
Take(list, n) == SubSeq(list, 1, IF Len(list) < n THEN Len(list) ELSE n)

\* C17: additional is the first max_additional distinct entries of the
\* candidates the rules produced in the order religious, political, identity,
\* professional, less the candidates that are among the user's communities.
C17_FirstCandidatesInRuleOrder ==
    Returned("select_communities") =>
        LET produced == CommunitiesOf(fresult.by_rule.religious \o fresult.by_rule.political \o fresult.by_rule.identity \o fresult.by_rule.professional)
            own == Elements(get_communities(fcall.user))
            surviving == SelectSeq(produced, LAMBDA c : c \notin own)
            expected == Take([i \in DOMAIN FirstOccurrences(surviving) |-> FirstOccurrences(surviving)[i][1]], fcall.max_additional)
        IN  fresult.selected.additional = expected

\* all four rules produced a candidate, the user holds the religious rule's
\* one, and the cap is below the number of candidates that survive
C17_Witness ==
    /\ Returned("select_communities")
    /\ fresult.by_rule.religious # <<>>
    /\ fresult.by_rule.political # <<>>
    /\ fresult.by_rule.identity # <<>>
    /\ fresult.by_rule.professional # <<>>
    /\ fresult.by_rule.religious[1].community \in Elements(get_communities(fcall.user))
    /\ fcall.max_additional = 2
    /\ Len(fresult.selected.additional) = 2
    /\ fresult.selected.additional[1] = fresult.by_rule.political[1].community

\* the leaning the political rule is to work from, and what it is to propose
LeaningOf(user) ==
    IF user.primary_community_type = "political" THEN Str(user.primary_community)
    ELSE IF user.secondary_community_type = Str("political") THEN user.secondary_community
    ELSE None
OpposingOf(leaning) ==
    IF leaning \in {Str("progressive"), Str("socialist")} THEN <<"conservative">>
    ELSE IF leaning = Str("conservative") THEN <<"progressive">>
    ELSE IF leaning = Str("libertarian") THEN <<"progressive", "conservative">>
    ELSE <<"progressive">>

C20_OneOrTwoAdditional ==
    ( /\ Returned("select_communities")
      /\ should_surface_perspectives(fcall.controversy_profile)
      /\ fcall.max_additional = DefaultMaxAdditional ) =>
        Len(fresult.selected.additional) \in 1..2

\* the user holds a secular affiliation: a community typed "secular"
HoldsSecular(user) ==
    \/ user.primary_community_type = "secular"
    \/ user.secondary_community_type = Str("secular") /\ Truthy(user.secondary_community)

\* the religious list of the topic, the default pair where it has none
ReligiousListOf(topic_category) ==
    IF topic_category # None /\ topic_category.val \in DOMAIN TOPIC_COMMUNITY_MAPPINGS /\ "religious" \in DOMAIN TOPIC_COMMUNITY_MAPPINGS[topic_category.val]
    THEN TOPIC_COMMUNITY_MAPPINGS[topic_category.val].religious
    ELSE <<"Catholic", "evangelical_protestant">>

\* C21: with the religious level MEDIUM or HIGH the religious rule proposes
\* a secular counterpoint to a user whose primary affiliation is religious,
\* unless the user holds a secular affiliation, and to any other user the
\* first community of the topic's religious list (of the default pair
\* Catholic, evangelical_protestant when the topic has none) that the user
\* does not hold; with the level NONE or LOW it proposes nothing.
C21_ReligiousRule ==
    Returned("select_communities") =>
        LET user == fcall.user
            own == Elements(get_communities(user))
            options == ReligiousListOf(fcall.topic_category)
            free == {i \in DOMAIN options : options[i] \notin own}
        IN  CommunitiesOf(fresult.by_rule.religious) =
                IF fcall.controversy_profile.religious \notin {MEDIUM, HIGH} THEN <<>>
                ELSE IF user.primary_community_type = "religious"
                     THEN IF HoldsSecular(user) THEN <<>> ELSE <<"secular_progressive">>
                ELSE IF free = {} THEN <<>>
                ELSE <<options[CHOOSE i \in free : \A j \in free : i <= j]>>

\* C22 as stated: the religious, identity and professional rules append at
\* most one candidate each per call, the political rule at most two.
C22_AtMostOnePerRule ==
    Returned("select_communities") =>
        /\ Len(fresult.by_rule.religious) <= 1
        /\ Len(fresult.by_rule.identity) <= 1
        /\ Len(fresult.by_rule.professional) <= 1
        /\ Len(fresult.by_rule.political) <= 2

\* the identity list of the topic
IdentityListOf(topic_category) == MappingGet(TopicCommunities(topic_category), "identity", <<>>)

\* C22, amended: the religious and the professional rule append at most one
\* candidate each per call and the political rule at most two; the identity
\* rule appends at most one candidate for each identity community listed for
\* the topic, so it may append several.
C22_RuleCandidateCounts ==
    Returned("select_communities") =>
        /\ Len(fresult.by_rule.religious) <= 1
        /\ Len(fresult.by_rule.professional) <= 1
        /\ Len(fresult.by_rule.political) <= 2
        /\ Len(fresult.by_rule.identity) <= Len(IdentityListOf(fcall.topic_category))
        /\ NoDuplicates(CommunitiesOf(fresult.by_rule.identity))
        /\ Elements(CommunitiesOf(fresult.by_rule.identity)) \subseteq Elements(IdentityListOf(fcall.topic_category))

\* every rule appended as much as it can here: one religious, two political,
\* three identity candidates and one professional one
C22_Witness ==
    /\ Returned("select_communities")
    /\ Len(fresult.by_rule.religious) = 1
    /\ Len(fresult.by_rule.political) = 2
    /\ Len(fresult.by_rule.identity) = 3
    /\ Len(fresult.by_rule.professional) = 1
    /\ fcall.topic_category = Str("gun_rights")

\* the registry has the community at the identity tier
AtIdentityTier(registry, community_id) ==
    community_id \in DOMAIN registry /\ registry[community_id].tier = "TIER_5_IDENTITY"

\* the clause the rationale gets for an identity community the user holds
AffectedClause(registry, community_id) ==
    "User is directly affected as " \o get_community_name(registry, community_id)

\* C23: of the identity communities listed for the topic, one the user holds
\* is never a candidate nor in additional and leaves only a 'directly
\* affected' clause in the rationale; one the user does not hold is a
\* candidate exactly when the registry has it at the identity tier, and
\* leaves no such clause.
C23_IdentityRule ==
    ( Returned("select_communities") /\ should_surface_perspectives(fcall.controversy_profile) ) =>
        LET own == Elements(get_communities(fcall.user))
            listed == IdentityListOf(fcall.topic_category)
            proposed == Elements(CommunitiesOf(fresult.by_rule.identity))
        IN  \A i \in DOMAIN listed :
                IF listed[i] \in own
                THEN /\ listed[i] \notin proposed
                     /\ listed[i] \notin Elements(fresult.selected.additional)
                     /\ Find(fresult.selected.rationale, AffectedClause(fcall.registry, listed[i])) # 0
                ELSE /\ listed[i] \in proposed <=> AtIdentityTier(fcall.registry, listed[i])
                     /\ Find(fresult.selected.rationale, AffectedClause(fcall.registry, listed[i])) = 0

\* a user who holds women but not feminist asked about reproductive rights:
\* with the registry that has feminist at the political tier, nothing is
\* proposed by the identity rule
C23_Witness ==
    /\ Returned("select_communities")
    /\ should_surface_perspectives(fcall.controversy_profile)
    /\ fcall.topic_category = Str("reproductive_rights")
    /\ fcall.user.primary_community = "women"
    /\ "feminist" \notin Elements(get_communities(fcall.user))
    /\ fcall.registry = SparseRegistry
    /\ fresult.by_rule.identity = <<>>
    /\ fresult.by_rule.rationale_parts = <<"User is directly affected as women">>

-----------------------------------------------------------------------------
(* SpecCompletion: generate_completion over what the backend may do *)

\* the backend raised an exception whose text is message
BackendRaisesWith(message) == [kind |-> "raises", content |-> Str(message)]

\* line 46: the backend is called only on a client
CallsBackend(client) == client # None

\* generate_completion without its except clause
CompletionUnguarded(client, backend) ==
    IF client = None THEN Returns(Str(NotConfigured))
    ELSE IF backend.kind = "raises" THEN Raised
    ELSE Returns(backend.content)

\* lines 45-55: what generate_completion returns when the backend call, if
\* made, ends as backend tells
CompletionOf(client, backend) ==
    IF client = None THEN Returns(Str(NotConfigured))
    ELSE IF backend.kind = "raises"
         THEN Returns(Str("[Error calling OpenAI API: " \o backend.content.val \o "]"))
         ELSE Returns(backend.content)

CompletionPrompts == {"p1", "p2", "p3", "p4"}

\* max_tokens of a call that passes none, and the values put
DefaultMaxTokens == 800
CompletionMaxTokens == {DefaultMaxTokens, 1500}
ExceptionTexts == {"e", "Connection error.", ""}
CompletionOutcomes ==
    {BackendRaisesWith(message) : message \in ExceptionTexts}
        \cup {BackendAnswers(Str(text)) : text \in LlmTexts} \cup {BackendAnswers(None)}

CallCompletion ==
    /\ FunParked
    /\ \E client \in Clients, prompt \in CompletionPrompts, max_tokens \in CompletionMaxTokens :
           FunCall([fn |-> "generate_completion", client |-> client, prompt |-> prompt, max_tokens |-> max_tokens, backend |-> NotCalled])

\* client.chat.completions.create(...) ends one way or another
CompletionBackend ==
    /\ Calling("generate_completion")
    /\ CallsBackend(fcall.client)
    /\ fcall.backend = NotCalled
    /\ \E outcome \in CompletionOutcomes : fcall' = [fcall EXCEPT !.backend = outcome]
    /\ UNCHANGED <<keysVars, detectVars, fresult, systemVars>>

ReturnCompletion ==
    /\ Calling("generate_completion")
    /\ ~CallsBackend(fcall.client) \/ fcall.backend # NotCalled
    /\ fresult' = CompletionOf(fcall.client, fcall.backend)
    /\ UNCHANGED <<keysVars, detectVars, fcall, systemVars>>

NextCompletion == CallCompletion \/ CompletionBackend \/ ReturnCompletion \/ FunReturn

SpecCompletion == Init /\ [][NextCompletion]_vars

\* a text that opens and closes with a square bracket
BracketTagged(v) ==
    v.kind = "str" /\ Len(v.val) >= 2 /\ Char(v.val, 1) = "[" /\ Char(v.val, Len(v.val)) = "]"

\* C19: generate_completion never raises; without a client it returns a
\* bracket-tagged placeholder and the backend is not called, and when the
\* backend call raises it returns a bracket-tagged error text.
C19_CompletionNeverRaises ==
    Returned("generate_completion") =>
        /\ ~fresult.raised
        /\ fcall.client = None =>
               /\ fcall.backend = NotCalled
               /\ BracketTagged(fresult.value)
               /\ fresult.value.val = "[OpenAI client not configured: set OPENAI_API_KEY env var]"
        /\ fcall.backend.kind = "raises" =>
               /\ BracketTagged(fresult.value)
               /\ StartsWith(fresult.value.val, "[Error calling OpenAI API: ")

\* the backend raised and the error text came back
C19_Witness ==
    /\ Returned("generate_completion")
    /\ fcall.client # None
    /\ fcall.backend = BackendRaisesWith("Connection error.")
    /\ fresult = Returns(Str("[Error calling OpenAI API: Connection error.]"))

====
